---- MODULE Spec2Model ----
(***************************************************************************)
(* The WalletConnect request bridge of the passkey wallet:                 *)
(*   hooks/useWalletConnect.ts      session manager and request bridge     *)
(*   components/WalletConnectModal.tsx   RequestCard approval / rejection  *)
(*   components/WalletConnectProvider.tsx   mounting of the request view   *)
(*                                                                         *)
(* React state (useState) is a variable; a functional updater              *)
(* setX(prev => f(prev)) is applied to the latest value, so it is modelled *)
(* as x' = f(x) at the place of the call.  Every await of a transport,     *)
(* HTTP or authenticator call is a point where other handlers may run, so  *)
(* a handler that continues after such an await is split there.  A call of *)
(* walletKit.respondSessionRequest is recorded in the log "responses";     *)
(* whether it then resolves or throws is an input of the calling step.     *)
(***************************************************************************)
EXTENDS Integers, Sequences, FiniteSets, TLC

\* ------------------------------------------------------------------ bounds
MaxTopics == 2          \* session topics the relay can mint
MaxId     == 1          \* JSON-RPC request ids a peer uses
MaxFlows  == 1          \* handleSignWithPasskey calls running at one time
MaxTime   == 0          \* last value Date.now() returns
MaxRand   == 1          \* last value of the Math.random() part of a batchId
MaxRequests == 2        \* session_request events delivered in one behaviour
MaxResponses == 1       \* respondSessionRequest may throw while fewer calls were made
MaxCards  == 2          \* handleSignWithPasskey calls running at one time in SpecCeremony
MaxInits  == 2          \* WalletKit.init calls outstanding at one time

Topics == 1..MaxTopics
Ids    == 1..MaxId
Times  == 0..MaxTime
Rands  == 0..MaxRand

\* ------------------------------------------------- constants of the program
SUPPORTED_CHAIN_IDS == {1, 8453}

SUPPORTED_METHODS ==
  { "eth_sendTransaction", "wallet_sendCalls", "wallet_getCapabilities",
    "wallet_getCallsStatus", "eth_accounts", "eth_requestAccounts",
    "personal_sign", "eth_sign", "eth_signTypedData", "eth_signTypedData_v4" }

SUPPORTED_EVENTS == { "accountsChanged", "chainChanged" }

SigningMethods ==
  { "personal_sign", "eth_sign", "eth_signTypedData", "eth_signTypedData_v4" }

\* methods a peer sends in the model: every handled class, one representative
\* of the signing class, and one method that no branch handles
InboundMethods ==
  { "wallet_getCapabilities", "wallet_getCallsStatus", "eth_accounts",
    "eth_requestAccounts", "wallet_sendCalls", "personal_sign",
    "eth_sendTransaction", "eth_chainId" }

smartWalletAddress == "0xwallet"
WALLETCONNECT_PROJECT_ID == "project-id"   \* config: a project id is configured
ChainOf(t) == "eip155:8453"          \* params.chainId of the requests of a session
PeerMeta(t) == [name |-> "dApp", topic |-> t]
TxHashes == {"0xabc", "0xdef"}       \* hashes the facilitator may return

NoBatch == << >>                     \* SessionRequest.batchId undefined

Statuses == {"idle", "initializing", "ready", "pairing", "connected", "error"}

VARIABLES
  status,           \* useState<ConnectionStatus>
  error,            \* useState<string | null>
  walletKit,        \* walletKit !== null
  initializing,     \* initializingRef.current
  initEffect,       \* the init effect: WalletKit.init promises outstanding, how its latest run ended
  kit,              \* per topic: where the transport is with that session
  sessionCalls,     \* calls of walletKit.approveSession / rejectSession
  activeSessions,   \* useState<ActiveSession[]>
  sessionRequests,  \* useState<SessionRequest[]>
  batchStatuses,    \* batchStatusesRef.current : Map<string, BatchCallStatus>
  responses,        \* calls of walletKit.respondSessionRequest, in order
  seen,             \* <<topic, id>> of the session_request events delivered
  showModal,        \* WalletConnectProvider.showModal
  pairCall,         \* activeSessions.length captured by the running pair(), or NoPair
  flows,            \* running handleSignWithPasskey calls
  credential,       \* [qx, qy present]
  txError,          \* what the latest setTxError of a mounted RequestCard set
  transfer,         \* the handleTransfer call: [phase, auth, status]
  calc              \* a function of utils/crypto.ts or App.tsx, its input, its results

vars == << status, error, walletKit, initializing, initEffect, kit, sessionCalls, activeSessions,
           sessionRequests, batchStatuses, responses, seen, showModal,
           pairCall, flows, credential, txError, transfer, calc >>

NoPair == -1
NoRun == [calls |-> 0, last |-> "none"]
NoError == "null"

\* ------------------------------------------------------------ pure helpers
\* Array.prototype.filter
Filter(seq, Keep(_)) == SelectSeq(seq, Keep)

\* Number.prototype.toString(16), as the sequence of its hex digits
RECURSIVE toString16(_)
toString16(n) == IF n < 16 THEN << n >> ELSE Append(toString16(n \div 16), n % 16)

\* { ...current, ...updates }
Spread(current, updates) ==
  [k \in (DOMAIN current) \cup (DOMAIN updates) |->
     IF k \in DOMAIN updates THEN updates[k] ELSE current[k]]

\* ------------------------------------------------------- bytes and bigints
\* A Uint8Array is a sequence of bytes, read with 0-based offsets; a read
\* outside of it gives undefined, written -1 here (no byte is negative).
Undefined == -1
At(bytes, offset) ==
  IF offset >= 0 /\ offset < Len(bytes) THEN bytes[offset + 1] ELSE Undefined

\* Uint8Array.prototype.slice(start, end), 0 <= start <= end
Slice(bytes, start, end) ==
  IF start >= Len(bytes) THEN << >>
  ELSE SubSeq(bytes, start + 1, IF end > Len(bytes) THEN Len(bytes) ELSE end)

Repeat(x, n) == [i \in 1..n |-> x]

\* the size of r, s, x and y in bytes
COMPONENT_SIZE == 32

\* new Uint8Array(32) with .set(bytes, 32 - bytes.length), bytes.length <= 32
PadTo32(bytes) == Repeat(0, COMPONENT_SIZE - Len(bytes)) \o bytes

\* A bigint is [neg, mag]: its sign and its magnitude as 32 bytes, big-endian
\* (every bigint of the signing code has a magnitude below 2^256).
BigIntOf(bytes32) == [neg |-> FALSE, mag |-> bytes32]

\* a > b for two magnitudes: the first byte in which they differ decides
Greater(a, b) ==
  \E i \in 1..Len(a) : a[i] > b[i] /\ \A j \in 1..(i - 1) : a[j] = b[j]

\* the borrow into byte i of a - b: the bytes after i of a are less than
\* those of b
Borrow(a, b, i) ==
  IF \E k \in (i + 1)..Len(a) : a[k] < b[k] /\ \A j \in (i + 1)..(k - 1) : a[j] = b[j]
    THEN 1 ELSE 0

\* a - b for two magnitudes with a >= b: schoolbook subtraction
Sub(a, b) == [i \in 1..Len(a) |-> (a[i] - b[i] - Borrow(a, b, i) + 256) % 256]

\* a / 2 for a magnitude: long division, the low bit of a byte is carried
\* into the next byte
Half(a) ==
  [i \in 1..Len(a) |-> ((IF i > 1 THEN a[i - 1] % 2 ELSE 0) * 256 + a[i]) \div 2]

\* secp256r1 order n =
\* 0xFFFFFFFF00000000FFFFFFFFFFFFFFFFBCE6FAADA7179E84F3B9CAC2FC632551
curveOrder ==
  << 255, 255, 255, 255, 0, 0, 0, 0, 255, 255, 255, 255, 255, 255, 255, 255,
     188, 230, 250, 173, 167, 23, 158, 132, 243, 185, 202, 194, 252, 99, 37, 81 >>

halfOrder == Half(curveOrder)

\* mutant: the comparison is made against the order, not against its half
normalizeS_AgainstOrder(s) ==
  IF Greater(s.mag, curveOrder)
    THEN [neg |-> FALSE, mag |-> Sub(s.mag, curveOrder)]
    ELSE s

\* normalizeS(s) for s >= 0: s > halfOrder ? curveOrder - s : s
normalizeS(s) ==
  IF Greater(s.mag, halfOrder)
    THEN IF Greater(s.mag, curveOrder)
           THEN [neg |-> TRUE, mag |-> Sub(s.mag, curveOrder)]
           ELSE [neg |-> FALSE, mag |-> Sub(curveOrder, s.mag)]
    ELSE s

HexChars ==
  << "0", "1", "2", "3", "4", "5", "6", "7", "8", "9", "a", "b", "c", "d", "e", "f" >>

\* b.toString(16).padStart(2, "0") of every byte, joined
BytesToHex(bytes) ==
  [i \in 1..(2 * Len(bytes)) |->
     IF i % 2 = 1 THEN HexChars[(bytes[(i + 1) \div 2] \div 16) + 1]
                  ELSE HexChars[(bytes[i \div 2] % 16) + 1]]

\* the digits without leading zeros; the last digit always stays
StripZeros(digits) ==
  LET first == CHOOSE i \in 1..Len(digits) :
                 /\ i = Len(digits) \/ digits[i] # "0"
                 /\ \A j \in 1..(i - 1) : digits[j] = "0"
  IN SubSeq(digits, first, Len(digits))

\* BigInt.prototype.toString(16)
BigIntToString16(n) ==
  LET digits == StripZeros(BytesToHex(n.mag))
  IN IF n.neg /\ digits # << "0" >> THEN << "-" >> \o digits ELSE digits

\* String.prototype.padStart(width, "0")
padStart(text, width) ==
  IF Len(text) >= width THEN text ELSE Repeat("0", width - Len(text)) \o text

\* "0x" + n.toString(16).padStart(64, "0")
ComponentHex(n) == << "0", "x" >> \o padStart(BigIntToString16(n), 64)

\* parseAsn1Signature
SEQUENCE_TAG == 48
INTEGER_TAG == 2

\* "Remove leading zero if present": only when more than 32 bytes are left
DropLeadingZero(bytes) ==
  IF Len(bytes) > COMPONENT_SIZE /\ bytes[1] = 0 THEN Tail(bytes) ELSE bytes

Thrown(message) == [ok |-> FALSE, error |-> message]

\* mutant: the tags are not checked
parseAsn1Signature_NoTags(bytes) ==
  LET seqLen == At(bytes, 1)
      rTag   == IF seqLen # Undefined /\ seqLen >= 128 THEN 2 + (seqLen - 128) ELSE 2
      rLen   == At(bytes, rTag + 1)
      rBytes == IF rLen = Undefined THEN << >>
                ELSE DropLeadingZero(Slice(bytes, rTag + 2, rTag + 2 + rLen))
      sTag   == IF rLen = Undefined THEN Len(bytes) ELSE rTag + 2 + rLen
      sLen   == At(bytes, sTag + 1)
      sBytes == IF sLen = Undefined THEN << >>
                ELSE DropLeadingZero(Slice(bytes, sTag + 2, sTag + 2 + sLen))
  IN IF Len(rBytes) > COMPONENT_SIZE \/ Len(sBytes) > COMPONENT_SIZE
       THEN Thrown("RangeError: offset is out of bounds")
       ELSE [ok |-> TRUE, r |-> BigIntOf(PadTo32(rBytes)), s |-> BigIntOf(PadTo32(sBytes))]

\* parseAsn1Signature(signature): [ok, r, s], or [ok = FALSE, error] for a
\* throw.  rTag and sTag are the offsets of the two INTEGER tags.
parseAsn1Signature(bytes) ==
  LET seqLen == At(bytes, 1)
      rTag   == IF seqLen # Undefined /\ seqLen >= 128 THEN 2 + (seqLen - 128) ELSE 2
      rLen   == At(bytes, rTag + 1)
      rBytes == IF rLen = Undefined THEN << >>
                ELSE DropLeadingZero(Slice(bytes, rTag + 2, rTag + 2 + rLen))
      \* offset += undefined gives NaN, and bytes[NaN] is undefined
      sTag   == IF rLen = Undefined THEN Len(bytes) ELSE rTag + 2 + rLen
      sLen   == At(bytes, sTag + 1)
      sBytes == IF sLen = Undefined THEN << >>
                ELSE DropLeadingZero(Slice(bytes, sTag + 2, sTag + 2 + sLen))
  IN IF At(bytes, 0) # SEQUENCE_TAG
       THEN Thrown("Invalid ASN.1 signature: expected SEQUENCE")
     ELSE IF At(bytes, rTag) # INTEGER_TAG
       THEN Thrown("Invalid ASN.1 signature: expected INTEGER for r")
     ELSE IF At(bytes, sTag) # INTEGER_TAG
       THEN Thrown("Invalid ASN.1 signature: expected INTEGER for s")
     \* Uint8Array.prototype.set with a negative offset
     ELSE IF Len(rBytes) > COMPONENT_SIZE \/ Len(sBytes) > COMPONENT_SIZE
       THEN Thrown("RangeError: offset is out of bounds")
     ELSE [ok |-> TRUE, r |-> BigIntOf(PadTo32(rBytes)), s |-> BigIntOf(PadTo32(sBytes))]

\* extractPublicKeyFromSpki
UNCOMPRESSED_POINT == 4
POINT_SIZE == 65

CoordinateHex(bytes) == << "0", "x" >> \o BytesToHex(bytes)

\* mutant: the first 0x04 of the blob is taken for the marker
extractPublicKeyFromSpki_FirstMarker(bytes) ==
  LET length == Len(bytes)
      marks == { i \in 0..(length - POINT_SIZE) : At(bytes, i) = UNCOMPRESSED_POINT }
      pointStart == IF marks = {} THEN -1
                    ELSE CHOOSE i \in marks : \A j \in marks : i <= j
  IN IF length < POINT_SIZE THEN Thrown("SPKI key too short")
     ELSE IF pointStart = -1
       THEN [ok |-> TRUE,
             qx |-> CoordinateHex(Slice(bytes, length - 64, length - 32)),
             qy |-> CoordinateHex(Slice(bytes, length - 32, length))]
       ELSE [ok |-> TRUE,
             qx |-> CoordinateHex(Slice(bytes, pointStart + 1, pointStart + 33)),
             qy |-> CoordinateHex(Slice(bytes, pointStart + 33, pointStart + 65))]

\* extractPublicKeyFromSpki(spkiKey): [ok, qx, qy], or a throw.  marks are
\* the offsets i < length - 64 that hold 0x04 and have 65 bytes from i on
extractPublicKeyFromSpki(bytes) ==
  LET length == Len(bytes)
      marks == { i \in 0..(length - POINT_SIZE) :
                   At(bytes, i) = UNCOMPRESSED_POINT /\ length - i = POINT_SIZE }
      pointStart == IF marks = {} THEN -1
                    ELSE CHOOSE i \in marks : \A j \in marks : i <= j
  IN IF length < POINT_SIZE THEN Thrown("SPKI key too short")
     ELSE IF pointStart = -1
       THEN [ok |-> TRUE,
             qx |-> CoordinateHex(Slice(bytes, length - 64, length - 32)),
             qy |-> CoordinateHex(Slice(bytes, length - 32, length))]
       ELSE [ok |-> TRUE,
             qx |-> CoordinateHex(Slice(bytes, pointStart + 1, pointStart + 33)),
             qy |-> CoordinateHex(Slice(bytes, pointStart + 33, pointStart + 65))]

\* buildChallengeHash
\* toHex(n, { size: 32 }) of viem for 0 <= n < 2^31: the number as 32 bytes,
\* big-endian; only the last four bytes can be other than zero
toHex32(n) ==
  [i \in 1..COMPONENT_SIZE |->
     IF i = COMPONENT_SIZE THEN n % 256
     ELSE IF i = COMPONENT_SIZE - 1 THEN (n \div 256) % 256
     ELSE IF i = COMPONENT_SIZE - 2 THEN (n \div 65536) % 256
     ELSE IF i = COMPONENT_SIZE - 3 THEN (n \div 16777216) % 256
     ELSE 0]

\* keccak256 is not computed: the hash stands for its pre-image, so that two
\* hashes are equal exactly when their pre-images are
keccak256(bytes) == [keccak256Of |-> bytes]

\* mutant: nonce and deadline change places
buildChallengeHash_DeadlineFirst(in) ==
  keccak256(toHex32(in.chainId) \o in.walletAddress \o in.target \o toHex32(in.value)
              \o in.data \o toHex32(in.deadline) \o toHex32(in.nonce))

\* buildChallengeHash(chainId, walletAddress, target, value, data, nonce,
\* deadline); concat joins the bytes
buildChallengeHash(in) ==
  keccak256(toHex32(in.chainId) \o in.walletAddress \o in.target \o toHex32(in.value)
              \o in.data \o toHex32(in.nonce) \o toHex32(in.deadline))

\* ------------------------------------------------------- the authorization
\* String.prototype.indexOf(pattern): the first 0-based offset at which
\* pattern occurs in text, -1 when there is none
Occurs(text, pattern, i) ==
  /\ i + Len(pattern) <= Len(text)
  /\ SubSeq(text, i + 1, i + Len(pattern)) = pattern
indexOf(text, pattern) ==
  IF \E i \in 0..Len(text) : Occurs(text, pattern, i)
    THEN CHOOSE i \in 0..Len(text) :
           Occurs(text, pattern, i) /\ \A j \in 0..(i - 1) : ~Occurs(text, pattern, j)
    ELSE -1

\* Number.prototype.toString() of an integer
RECURSIVE Digits(_)
Digits(n) ==
  IF n < 10 THEN << HexChars[n + 1] >>
  ELSE Append(Digits(n \div 10), HexChars[(n % 10) + 1])
NumberToString(n) == IF n < 0 THEN << "-" >> \o Digits(0 - n) ELSE Digits(n)

\* the literals '"challenge"' and '"type"'
CHALLENGE_MARKER ==
  << "\"", "c", "h", "a", "l", "l", "e", "n", "g", "e", "\"" >>
TYPE_MARKER ==
  << "\"", "t", "y", "p", "e", "\"" >>

\* mutant: s is packaged as it was decoded
WebAuthnAuth_RawS(parsed, assertion) ==
  [ r                 |-> ComponentHex(parsed.r),
    s                 |-> ComponentHex(parsed.s),
    challengeIndex    |-> NumberToString(indexOf(assertion.clientDataJSON, CHALLENGE_MARKER)),
    typeIndex         |-> NumberToString(indexOf(assertion.clientDataJSON, TYPE_MARKER)),
    authenticatorData |-> << "0", "x" >> \o BytesToHex(assertion.authenticatorData),
    clientDataJSON    |-> assertion.clientDataJSON ]

\* the WebAuthnAuth built from the decoded signature and the assertion
WebAuthnAuth(parsed, assertion) ==
  [ r                 |-> ComponentHex(parsed.r),
    s                 |-> ComponentHex(normalizeS(parsed.s)),
    challengeIndex    |-> NumberToString(indexOf(assertion.clientDataJSON, CHALLENGE_MARKER)),
    typeIndex         |-> NumberToString(indexOf(assertion.clientDataJSON, TYPE_MARKER)),
    authenticatorData |-> << "0", "x" >> \o BytesToHex(assertion.authenticatorData),
    clientDataJSON    |-> assertion.clientDataJSON ]

\* no authorization built (yet)
NoAuth == [built |-> FALSE]

\* no function is being applied
NoCalc == [fn |-> "none", input |-> << >>, output |-> << >>]

\* no handleTransfer call is running
NoTransfer == [phase |-> "idle", auth |-> NoAuth, status |-> << "", "" >>]

\* ---------------------------------------------------- what an authenticator
\* may return: the inputs of the signing flows
Zero32 == Repeat(0, COMPONENT_SIZE)
One32 == PadTo32(<< 1 >>)
Max32 == Repeat(255, COMPONENT_SIZE)

\* the DER INTEGER content of a magnitude: no leading zeros, and a 0x00 in
\* front of a first byte that has its high bit set
Minimal(bytes) ==
  LET first == CHOOSE i \in 1..Len(bytes) :
                 /\ i = Len(bytes) \/ bytes[i] # 0
                 /\ \A j \in 1..(i - 1) : bytes[j] = 0
  IN SubSeq(bytes, first, Len(bytes))
DerInteger(mag) ==
  LET m == Minimal(mag) IN IF m[1] >= 128 THEN << 0 >> \o m ELSE m

\* SEQUENCE { INTEGER r, INTEGER s } with the given INTEGER contents
Der(rBytes, sBytes) ==
  << SEQUENCE_TAG, 4 + Len(rBytes) + Len(sBytes), INTEGER_TAG, Len(rBytes) >> \o rBytes
    \o << INTEGER_TAG, Len(sBytes) >> \o sBytes

\* s values around the bounds that matter: 0, 1, n/2, n/2 + 1, n - 1, n,
\* n + 1 and 2^256 - 1
SValues ==
  { Zero32, One32, halfOrder, Sub(curveOrder, halfOrder), Sub(curveOrder, One32),
    curveOrder, [curveOrder EXCEPT ![COMPONENT_SIZE] = @ + 1], Max32 }

\* INTEGER contents of every length class: empty, short, 32 bytes with and
\* without a leading 0x00, 33 bytes with and without it, 34 bytes
Components ==
  { DerInteger(v) : v \in SValues }
    \cup { << >>, << 0 >> \o Repeat(7, 31), << 1 >> \o Repeat(7, 32),
           << 0, 0 >> \o Repeat(7, 32) }

WellFormedSignatures == { Der(DerInteger(One32), sBytes) : sBytes \in Components }
                          \cup { Der(rBytes, DerInteger(One32)) : rBytes \in Components }

\* the same SEQUENCE with its length in the long form (0x81, length)
LongFormSignature ==
  << SEQUENCE_TAG, 129, 6, INTEGER_TAG, 1, 5, INTEGER_TAG, 1, 9 >>

MalformedSignatures ==
  { << >>,
    << 49, 6, INTEGER_TAG, 1, 5, INTEGER_TAG, 1, 9 >>,
    << SEQUENCE_TAG, 6, 4, 1, 5, INTEGER_TAG, 1, 9 >>,
    << SEQUENCE_TAG, 6, INTEGER_TAG, 1, 5, 4, 1, 9 >>,
    << SEQUENCE_TAG, 6, INTEGER_TAG >>,
    << SEQUENCE_TAG, 6, INTEGER_TAG, 1, 5, INTEGER_TAG >> }

Signatures == WellFormedSignatures \cup { LongFormSignature } \cup MalformedSignatures

\* clientDataJSON texts: both markers in either order, "type" missing,
\* "challenge" missing, neither
ClientDataBoth ==
  << "{", "\"", "t", "y", "p", "e", "\"", ":", "\"", "w", "e", "b", "a", "u",
     "t", "h", "n", ".", "g", "e", "t", "\"", ",", "\"", "c", "h", "a", "l",
     "l", "e", "n", "g", "e", "\"", ":", "\"", "A", "Q", "\"", "}" >>
ClientDataChallengeFirst ==
  << "{", "\"", "c", "h", "a", "l", "l", "e", "n", "g", "e", "\"", ":", "\"",
     "A", "Q", "\"", ",", "\"", "t", "y", "p", "e", "\"", ":", "\"", "w",
     "e", "b", "a", "u", "t", "h", "n", ".", "g", "e", "t", "\"", "}" >>
ClientDataNoType ==
  << "{", "\"", "c", "h", "a", "l", "l", "e", "n", "g", "e", "\"", ":", "\"",
     "A", "Q", "\"", "}" >>
ClientDataNoChallenge ==
  << "{", "\"", "t", "y", "p", "e", "\"", ":", "\"", "w", "e", "b", "a", "u",
     "t", "h", "n", ".", "g", "e", "t", "\"", "}" >>
ClientDataTexts ==
  { ClientDataBoth, ClientDataChallengeFirst, ClientDataNoType, ClientDataNoChallenge,
    << "{", "}" >> }

\* 0x49 0x96: the first bytes of an rpIdHash; 5 = user present and verified
AuthenticatorData == << 73, 150, 5 >>

\* an assertion of a conforming authenticator, and one whose signature is
\* not a SEQUENCE
SampleAssertion ==
  [ signature |-> Der(DerInteger(One32), DerInteger(One32)),
    authenticatorData |-> AuthenticatorData, clientDataJSON |-> ClientDataBoth ]
MalformedAssertion ==
  [ SampleAssertion EXCEPT !.signature = << 49, 6, INTEGER_TAG, 1, 5, INTEGER_TAG, 1, 9 >> ]

\* every signature with the usual text, and every text with the sample
\* signature
Assertions ==
  { [SampleAssertion EXCEPT !.signature = signature] : signature \in Signatures }
    \cup { [SampleAssertion EXCEPT !.clientDataJSON = text] : text \in ClientDataTexts }

\* walletKit.getActiveSessions()
getActiveSessions == { t \in Topics : kit[t] = "live" }

ActiveTopics == { activeSessions[i].topic : i \in 1..Len(activeSessions) }

ActiveSession(t) == [topic |-> t, peerMeta |-> PeerMeta(t), expiry |-> 7]

\* the response objects handed to walletKit.respondSessionRequest
ResultResponse(id, result) == [id |-> id, jsonrpc |-> "2.0", result |-> result]
ErrorResponse(id, code, message) ==
  [id |-> id, jsonrpc |-> "2.0", error |-> [code |-> code, message |-> message]]

\* walletKit.respondSessionRequest({topic, response}): the call is logged,
\* whether it then resolves or throws; "via" names the place of the call
respondSessionRequest(log, via, topic, response) ==
  Append(log, [via |-> via, topic |-> topic, response |-> response, threw |-> FALSE])

\* the respondSessionRequest call a caller awaited: it resolved (ok), or it
\* threw and the last entry of the log is a call that sent nothing
Awaited(log, ok) == IF ok THEN log ELSE [log EXCEPT ![Len(log)].threw = TRUE]

\* wallet_getCapabilities result
capabilities ==
  [c \in { toString16(n) : n \in SUPPORTED_CHAIN_IDS } |->
     [atomic |-> [status |-> "supported"]]]

\* wallet_getCallsStatus result
statusResponse(batchStatus) ==
  LET base == [version |-> "2.0.0", id |-> batchStatus.batchId,
               chainId |-> batchStatus.chainId, status |-> batchStatus.status,
               atomic |-> batchStatus.atomic]
  IN IF "receipts" \in DOMAIN batchStatus
       THEN Spread(base, [receipts |-> batchStatus.receipts])
       ELSE base

initialStatus(batchId, chainId) ==
  [batchId |-> batchId, chainId |-> chainId, status |-> 100, atomic |-> TRUE]

\* mutant: the BatchStatus is not registered when the reply is sent
registerBatch_Skipped(bs, batchId, chainId) == bs

\* batchStatusesRef.current.set(batchId, initialStatus)
registerBatch(bs, batchId, chainId) ==
  [b \in (DOMAIN bs) \cup {batchId} |->
     IF b = batchId THEN initialStatus(batchId, chainId) ELSE bs[b]]

\* mutant: a BatchStatus that reaches a final status is deleted from the map
updateBatchStatus_Deleting(bs, batchId, updates) ==
  IF batchId \notin DOMAIN bs
    THEN bs
    ELSE [b \in (DOMAIN bs) \ {batchId} |-> bs[b]]

updateBatchStatus(bs, batchId, updates) ==
  IF batchId \notin DOMAIN bs
    THEN bs
    ELSE [bs EXCEPT ![batchId] = Spread(@, updates)]

\* mutant: the request is not dropped
clearRequest_Keep(queue, requestId) == queue

\* setSessionRequests(prev => prev.filter(r => r.id !== requestId))
clearRequest(queue, requestId) ==
  LET keep(r) == r.id # requestId IN Filter(queue, keep)

\* setSessionRequests(prev => prev.filter(r => r.topic !== topic))
dropTopicRequests(queue, topic) ==
  LET keep(r) == r.topic # topic IN Filter(queue, keep)

\* setActiveSessions(prev => prev.filter(s => s.topic !== topic))
dropSession(sessions, topic) ==
  LET keep(s) == s.topic # topic IN Filter(sessions, keep)

SessionRequest(id, topic, method, chainId, batchId, timestamp) ==
  [id |-> id, topic |-> topic, method |-> method, chainId |-> chainId,
   batchId |-> batchId, timestamp |-> timestamp, peerMeta |-> PeerMeta(topic)]

\* useEffect of WalletConnectProvider: a change of sessionRequests.length
\* to a positive value calls onRequestReceived, which shows the request view
onRequestReceived(queue) ==
  IF Len(queue) # Len(sessionRequests) /\ Len(queue) > 0 THEN TRUE ELSE showModal

\* a RequestCard that is unmounted loses its isProcessing state; the
\* handleSignWithPasskey call it started keeps running
Unmount(fs, Gone(_)) ==
  { IF Gone(f.request) THEN [f EXCEPT !.mounted = FALSE] ELSE f : f \in fs }

InQueue(queue, r) == \E i \in 1..Len(queue) : queue[i] = r
CardsAfter(queue) ==
  LET gone(r) == ~InQueue(queue, r) IN Unmount(flows, gone)

\* the same when the handleSignWithPasskey call f has returned
CardsAfterReturn(queue, f) ==
  LET gone(r) == ~InQueue(queue, r) IN Unmount(flows \ {f}, gone)

\* --------------------------------------------------------------- Init
Init ==
  /\ status = "idle"
  /\ error = NoError
  /\ walletKit = FALSE
  /\ initializing = FALSE
  /\ initEffect = NoRun
  /\ kit = [t \in Topics |-> "unborn"]
  /\ sessionCalls = {}
  /\ activeSessions = << >>
  /\ sessionRequests = << >>
  /\ batchStatuses = << >>
  /\ responses = << >>
  /\ seen = {}
  /\ showModal = TRUE
  /\ pairCall = NoPair
  /\ flows = {}
  /\ credential \in { [qx |-> TRUE, qy |-> TRUE], [qx |-> FALSE, qy |-> FALSE] }
  /\ txError = NoError
  /\ transfer = NoTransfer
  /\ calc = NoCalc

\* ---------------------------------------------------- RelaySessionManager
bridgeVars == << sessionRequests, batchStatuses, responses, seen, flows >>
uiVars == << showModal, credential, txError, transfer, calc >>

\* mutant: the effect does not look at initializingRef
InitEffect_Unguarded(enabled, address) ==
  /\ initEffect.calls < MaxInits
  /\ IF ~enabled \/ address = ""
       THEN /\ initEffect' = [initEffect EXCEPT !.last = "disabled"]
            /\ UNCHANGED << initializing, status, error >>
       ELSE IF WALLETCONNECT_PROJECT_ID = ""
         THEN /\ error' = "WalletConnect project ID not configured"
              /\ status' = "error"
              /\ initEffect' = [initEffect EXCEPT !.last = "unconfigured"]
              /\ UNCHANGED initializing
         ELSE /\ initializing' = TRUE
              /\ status' = "initializing"
              /\ error' = NoError
              /\ initEffect' = [calls |-> initEffect.calls + 1, last |-> "started"]
  /\ UNCHANGED << walletKit, kit, sessionCalls, activeSessions, pairCall,
                  bridgeVars, uiVars >>

\* one run of the init effect with the enabled and smartWalletAddress of the
\* render: it returns at once, or runs initWalletKit up to the await of
\* WalletKit.init
InitEffect(enabled, address) ==
  /\ initEffect.calls < MaxInits
  /\ IF ~enabled \/ address = ""
       THEN /\ initEffect' = [initEffect EXCEPT !.last = "disabled"]
            /\ UNCHANGED << initializing, status, error >>
       ELSE IF initializing
         THEN /\ initEffect' = [initEffect EXCEPT !.last = "busy"]
              /\ UNCHANGED << initializing, status, error >>
         ELSE IF WALLETCONNECT_PROJECT_ID = ""
           THEN /\ error' = "WalletConnect project ID not configured"
                /\ status' = "error"
                /\ initEffect' = [initEffect EXCEPT !.last = "unconfigured"]
                /\ UNCHANGED initializing
           ELSE /\ initializing' = TRUE
                /\ status' = "initializing"
                /\ error' = NoError
                /\ initEffect' = [calls |-> initEffect.calls + 1, last |-> "started"]
  /\ UNCHANGED << walletKit, kit, sessionCalls, activeSessions, pairCall,
                  bridgeVars, uiVars >>

\* the run of the init effect when the provider mounts
InitStart ==
  /\ status = "idle"
  /\ ~initializing
  /\ InitEffect(TRUE, smartWalletAddress)

\* mutant: the status stays ready when sessions were restored
InitOk_AlwaysReady(persisted) ==
  /\ initEffect.calls > 0
  /\ walletKit' = TRUE
  /\ kit' = [t \in Topics |-> IF t \in persisted THEN "live" ELSE "unborn"]
  /\ activeSessions' =
       LET RECURSIVE list(_)
           list(n) == IF n = 0 THEN << >>
                      ELSE IF n \in persisted
                             THEN Append(list(n - 1), ActiveSession(n))
                             ELSE list(n - 1)
       IN list(MaxTopics)
  /\ status' = "ready"
  /\ initializing' = FALSE
  /\ initEffect' = [initEffect EXCEPT !.calls = @ - 1]
  /\ UNCHANGED << error, sessionCalls, pairCall, bridgeVars, uiVars >>

\* WalletKit.init resolved; persisted = the sessions the transport restored
InitOk(persisted) ==
  /\ initEffect.calls > 0
  /\ walletKit' = TRUE
  /\ kit' = [t \in Topics |-> IF t \in persisted THEN "live" ELSE "unborn"]
  /\ activeSessions' =
       LET RECURSIVE list(_)
           list(n) == IF n = 0 THEN << >>
                      ELSE IF n \in persisted
                             THEN Append(list(n - 1), ActiveSession(n))
                             ELSE list(n - 1)
       IN list(MaxTopics)
  /\ status' = IF persisted # {} THEN "connected" ELSE "ready"
  /\ initializing' = FALSE
  /\ initEffect' = [initEffect EXCEPT !.calls = @ - 1]
  /\ UNCHANGED << error, sessionCalls, pairCall, bridgeVars, uiVars >>

\* WalletKit.init rejected
InitFail ==
  /\ initEffect.calls > 0
  /\ error' = "Failed to initialize WalletConnect"
  /\ status' = "error"
  /\ initializing' = FALSE
  /\ initEffect' = [initEffect EXCEPT !.calls = @ - 1]
  /\ UNCHANGED << walletKit, kit, sessionCalls, activeSessions, pairCall,
                  bridgeVars, uiVars >>

\* the namespaces handleSessionProposal offers to buildApprovedNamespaces
ourSupportedNamespaces ==
  [eip155 |->
     [chains   |-> { << "eip155", chainId >> : chainId \in SUPPORTED_CHAIN_IDS },
      methods  |-> SUPPORTED_METHODS,
      events   |-> SUPPORTED_EVENTS,
      accounts |-> { << "eip155", chainId, smartWalletAddress >> :
                       chainId \in SUPPORTED_CHAIN_IDS }]]

\* walletKit.approveSession({id, namespaces})
approveSession(calls, id, namespaces) ==
  calls \cup { [call |-> "approveSession", id |-> id, namespaces |-> namespaces] }

\* mutant: the catch block drops the proposal without rejecting it
rejectSession_Dropped(calls, id) == calls

\* walletKit.rejectSession({id, reason: getSdkError("USER_REJECTED")})
rejectSession(calls, id) ==
  calls \cup { [call |-> "rejectSession", id |-> id, reason |-> "USER_REJECTED"] }

\* handleSessionProposal up to its first await: walletKit.approveSession is
\* called, or (built = FALSE) buildApprovedNamespaces threw and the catch
\* block calls walletKit.rejectSession
HandleSessionProposal(t, built) ==
  /\ walletKit
  /\ kit[t] = "unborn"
  /\ IF built
       THEN /\ kit' = [kit EXCEPT ![t] = "proposed"]
            /\ sessionCalls' = approveSession(sessionCalls, t, ourSupportedNamespaces)
       ELSE /\ kit' = [kit EXCEPT ![t] = "rejecting"]
            /\ sessionCalls' = rejectSession(sessionCalls, t)
  /\ UNCHANGED << status, error, walletKit, initializing, initEffect, activeSessions, pairCall,
                  bridgeVars, uiVars >>

\* mutant: the approved session is not added to the list
ApproveSessionOk_NotListed(t) ==
  /\ kit[t] = "proposed"
  /\ kit' = [kit EXCEPT ![t] = "live"]
  /\ status' = "connected"
  /\ UNCHANGED << error, walletKit, initializing, initEffect, sessionCalls, activeSessions,
                  pairCall, bridgeVars, uiVars >>

\* walletKit.approveSession resolved
ApproveSessionOk(t) ==
  /\ kit[t] = "proposed"
  /\ kit' = [kit EXCEPT ![t] = "live"]
  /\ activeSessions' = Append(activeSessions, ActiveSession(t))
  /\ status' = "connected"
  /\ UNCHANGED << error, walletKit, initializing, initEffect, sessionCalls, pairCall,
                  bridgeVars, uiVars >>

\* walletKit.approveSession rejected: the catch block calls
\* walletKit.rejectSession
ApproveSessionFail(t) ==
  /\ kit[t] = "proposed"
  /\ kit' = [kit EXCEPT ![t] = "rejecting"]
  /\ sessionCalls' = rejectSession(sessionCalls, t)
  /\ UNCHANGED << status, error, walletKit, initializing, initEffect, activeSessions, pairCall,
                  bridgeVars, uiVars >>

\* walletKit.rejectSession settled (a throw is only logged): setError
RejectSessionDone(t) ==
  /\ kit[t] = "rejecting"
  /\ kit' = [kit EXCEPT ![t] = "rejected"]
  /\ error' = "Failed to approve session"
  /\ UNCHANGED << status, walletKit, initializing, initEffect, sessionCalls, activeSessions,
                  pairCall, bridgeVars, uiVars >>

\* handleSessionDelete: the peer deleted session t
HandleSessionDelete(t) ==
  /\ walletKit
  /\ kit[t] = "live"
  /\ kit' = [kit EXCEPT ![t] = "deleted"]
  /\ activeSessions' = dropSession(activeSessions, t)
  /\ sessionRequests' = dropTopicRequests(sessionRequests, t)
  /\ status' = IF getActiveSessions \ {t} = {} THEN "ready" ELSE status
  /\ showModal' = onRequestReceived(sessionRequests')
  /\ flows' = CardsAfter(sessionRequests')
  /\ UNCHANGED << error, walletKit, initializing, initEffect, sessionCalls, pairCall,
                  batchStatuses, responses, seen, credential, txError, transfer, calc >>

\* mutant: the uri is handed to the transport unchecked
Pair_Unchecked(valid) ==
  /\ showModal
  /\ status \in {"ready", "connected"}
  /\ walletKit
  /\ status' = "pairing"
  /\ error' = NoError
  /\ pairCall' = Len(activeSessions)
  /\ UNCHANGED << walletKit, initializing, initEffect, kit, sessionCalls, activeSessions,
                  bridgeVars, uiVars >>

\* pair(uri): valid = uri.startsWith("wc:")
Pair(valid) ==
  /\ showModal
  /\ status \in {"ready", "connected"}
  /\ IF ~walletKit
       THEN /\ error' = "WalletConnect not initialized"
            /\ UNCHANGED << status, pairCall >>
       ELSE IF ~valid
         THEN /\ error' = "Invalid WalletConnect URI"
              /\ UNCHANGED << status, pairCall >>
         ELSE /\ status' = "pairing"
              /\ error' = NoError
              /\ pairCall' = Len(activeSessions)
  /\ UNCHANGED << walletKit, initializing, initEffect, kit, sessionCalls, activeSessions,
                  bridgeVars, uiVars >>

\* walletKit.pair resolved
PairOk ==
  /\ pairCall # NoPair
  /\ pairCall' = NoPair
  /\ UNCHANGED << status, error, walletKit, initializing, initEffect, kit, sessionCalls,
                  activeSessions, bridgeVars, uiVars >>

\* mutant: a failed pairing puts the manager in the error state
PairFail_Error ==
  /\ pairCall # NoPair
  /\ pairCall' = NoPair
  /\ error' = "Failed to connect"
  /\ status' = "error"
  /\ UNCHANGED << walletKit, initializing, initEffect, kit, sessionCalls, activeSessions,
                  bridgeVars, uiVars >>

\* walletKit.pair rejected
PairFail ==
  /\ pairCall # NoPair
  /\ pairCall' = NoPair
  /\ error' = "Failed to connect"
  /\ status' = IF pairCall > 0 THEN "connected" ELSE "ready"
  /\ UNCHANGED << walletKit, initializing, initEffect, kit, sessionCalls, activeSessions,
                  bridgeVars, uiVars >>

\* disconnect(topic), pressed on a SessionCard; ok = FALSE:
\* walletKit.disconnectSession threw
Disconnect(t, ok) ==
  /\ walletKit
  /\ showModal
  /\ t \in ActiveTopics
  /\ IF ok
       THEN /\ kit' = [kit EXCEPT ![t] = "deleted"]
            /\ activeSessions' = dropSession(activeSessions, t)
            /\ sessionRequests' = dropTopicRequests(sessionRequests, t)
            /\ status' = IF getActiveSessions \ {t} = {} THEN "ready" ELSE status
            /\ showModal' = onRequestReceived(sessionRequests')
            /\ flows' = CardsAfter(sessionRequests')
       ELSE UNCHANGED << kit, activeSessions, sessionRequests, status, showModal, flows >>
  /\ UNCHANGED << error, walletKit, initializing, initEffect, sessionCalls, pairCall,
                  batchStatuses, responses, seen, credential, txError, transfer, calc >>

\* disconnectAll; failed = the topics whose disconnectSession threw
DisconnectAll(failed) ==
  /\ walletKit
  /\ showModal
  /\ Len(activeSessions) > 0
  /\ failed \subseteq getActiveSessions
  /\ kit' = [t \in Topics |->
               IF kit[t] = "live" /\ t \notin failed THEN "deleted" ELSE kit[t]]
  /\ activeSessions' = << >>
  /\ sessionRequests' = << >>
  /\ status' = "ready"
  /\ flows' = CardsAfter(sessionRequests')
  /\ UNCHANGED << error, walletKit, initializing, initEffect, sessionCalls, pairCall,
                  batchStatuses, responses, seen, uiVars >>

\* ------------------------------------------------------------ RequestBridge
sessionVars == << status, error, walletKit, initializing, initEffect, kit, sessionCalls,
                 activeSessions, pairCall >>

Delivered(t, id) == << t, id >> \in seen

\* the part of handleSessionRequest every branch shares: the event
\* {id, topic, params.request.method} is delivered by the transport
Deliver(t, id, method) ==
  /\ walletKit
  /\ kit[t] = "live"
  /\ ~Delivered(t, id)
  /\ Cardinality(seen) < MaxRequests
  /\ seen' = seen \cup { << t, id >> }

\* mutant: the new request is put in front of the queue
Enqueue_First(sessionRequest) ==
  /\ sessionRequests' = << sessionRequest >> \o sessionRequests
  /\ showModal' = onRequestReceived(sessionRequests')

\* setSessionRequests(prev => [...prev, sessionRequest])
Enqueue(sessionRequest) ==
  /\ sessionRequests' = Append(sessionRequests, sessionRequest)
  /\ showModal' = onRequestReceived(sessionRequests')

\* wallet_getCapabilities
HandleGetCapabilities(t, id) ==
  /\ Deliver(t, id, "wallet_getCapabilities")
  /\ responses' = respondSessionRequest(responses, "wallet_getCapabilities", t,
                                        ResultResponse(id, capabilities))
  /\ UNCHANGED << sessionVars, sessionRequests, batchStatuses, flows, uiVars >>

\* mutant: an unknown batchId is answered with the pending status
HandleGetCallsStatus_Pending(t, id, batchId) ==
  /\ Deliver(t, id, "wallet_getCallsStatus")
  /\ responses' = respondSessionRequest(responses, "wallet_getCallsStatus", t,
         ResultResponse(id, statusResponse(
           IF batchId \in DOMAIN batchStatuses THEN batchStatuses[batchId]
           ELSE initialStatus(batchId, ChainOf(t)))))
  /\ UNCHANGED << sessionVars, sessionRequests, batchStatuses, flows, uiVars >>

\* wallet_getCallsStatus; batchId = request.params[0]
HandleGetCallsStatus(t, id, batchId) ==
  /\ Deliver(t, id, "wallet_getCallsStatus")
  /\ responses' =
       IF batchId \notin DOMAIN batchStatuses
         THEN respondSessionRequest(responses, "wallet_getCallsStatus", t,
                                    ErrorResponse(id, 5730, "Unknown batch id"))
         ELSE respondSessionRequest(responses, "wallet_getCallsStatus", t,
                                    ResultResponse(id, statusResponse(batchStatuses[batchId])))
  /\ UNCHANGED << sessionVars, sessionRequests, batchStatuses, flows, uiVars >>

\* mutant: the account query is answered and also queued for the user
HandleAccounts_Queued(t, id, method) ==
  /\ method \in {"eth_accounts", "eth_requestAccounts"}
  /\ Deliver(t, id, method)
  /\ responses' = respondSessionRequest(responses, method, t,
                                        ResultResponse(id, << smartWalletAddress >>))
  /\ Enqueue(SessionRequest(id, t, method, ChainOf(t), NoBatch, 0))
  /\ UNCHANGED << sessionVars, batchStatuses, flows, credential, txError, transfer, calc >>

\* eth_accounts, eth_requestAccounts
HandleAccounts(t, id, method) ==
  /\ method \in {"eth_accounts", "eth_requestAccounts"}
  /\ Deliver(t, id, method)
  /\ responses' = respondSessionRequest(responses, method, t,
                                        ResultResponse(id, << smartWalletAddress >>))
  /\ UNCHANGED << sessionVars, sessionRequests, batchStatuses, flows, uiVars >>

\* Number.prototype.toString(16) of an integer
NumberToString16(n) == [i \in 1..Len(toString16(n)) |-> HexChars[toString16(n)[i] + 1]]

\* Math.random().toString(16).slice(2) for Math.random() = random / 16: "0"
\* gives "", "0.d" gives "d"
FractionDigits(random) == IF random = 0 THEN << >> ELSE << HexChars[random + 1] >>

\* the batchId minted by wallet_sendCalls from time = Date.now() and
\* Math.random() = random / 16
MintBatchId(time, random) ==
  << "0", "x" >> \o padStart(NumberToString16(time), 16)
                \o padStart(FractionDigits(random), 48)

\* the batchIds that can be minted
BatchIds == { MintBatchId(time, random) : time \in Times, random \in Rands }

\* wallet_sendCalls; time = Date.now(), random = Math.random()
HandleSendCalls(t, id, time, random) ==
  LET batchId == MintBatchId(time, random)
      requestChainId == ChainOf(t)
  IN /\ Deliver(t, id, "wallet_sendCalls")
     /\ batchStatuses' = registerBatch(batchStatuses, batchId, requestChainId)
     /\ Enqueue(SessionRequest(id, t, "wallet_sendCalls", requestChainId, batchId, time))
     /\ responses' = respondSessionRequest(responses, "wallet_sendCalls", t,
                                           ResultResponse(id, [id |-> batchId]))
     /\ UNCHANGED << sessionVars, flows, credential, txError, transfer, calc >>

\* personal_sign, eth_sign, eth_signTypedData, eth_signTypedData_v4
HandleSigningMethod(t, id, method, time) ==
  /\ method \in SigningMethods
  /\ Deliver(t, id, method)
  /\ Enqueue(SessionRequest(id, t, method, ChainOf(t), NoBatch, time))
  /\ UNCHANGED << sessionVars, batchStatuses, responses, flows, credential, txError, transfer, calc >>

\* mutant: the request is queued and answered at once
HandleSendTransaction_Answered(t, id, time) ==
  /\ Deliver(t, id, "eth_sendTransaction")
  /\ Enqueue(SessionRequest(id, t, "eth_sendTransaction", ChainOf(t), NoBatch, time))
  /\ responses' = respondSessionRequest(responses, "eth_sendTransaction", t,
                                        ResultResponse(id, "0x"))
  /\ UNCHANGED << sessionVars, batchStatuses, flows, credential, txError, transfer, calc >>

\* eth_sendTransaction
HandleSendTransaction(t, id, time) ==
  /\ Deliver(t, id, "eth_sendTransaction")
  /\ Enqueue(SessionRequest(id, t, "eth_sendTransaction", ChainOf(t), NoBatch, time))
  /\ UNCHANGED << sessionVars, batchStatuses, responses, flows, credential, txError, transfer, calc >>

\* mutant: the last branch is an else, every other method is queued
HandleOtherMethod_Queued(t, id, method) ==
  /\ method \notin SUPPORTED_METHODS
  /\ Deliver(t, id, method)
  /\ Enqueue(SessionRequest(id, t, method, ChainOf(t), NoBatch, 0))
  /\ UNCHANGED << sessionVars, batchStatuses, responses, flows, credential, txError, transfer, calc >>

\* a method that no branch of handleSessionRequest names
HandleOtherMethod(t, id, method) ==
  /\ method \notin SUPPORTED_METHODS
  /\ Deliver(t, id, method)
  /\ UNCHANGED << sessionVars, sessionRequests, batchStatuses, responses, flows,
                  uiVars >>

HandleSessionRequest(t, id, method) ==
  \/ /\ method = "wallet_getCapabilities"
     /\ HandleGetCapabilities(t, id)
  \/ /\ method = "wallet_getCallsStatus"
     /\ \E batchId \in BatchIds : HandleGetCallsStatus(t, id, batchId)
  \/ HandleAccounts(t, id, method)
  \/ /\ method = "wallet_sendCalls"
     /\ \E time \in Times, random \in Rands : HandleSendCalls(t, id, time, random)
  \/ \E time \in Times : HandleSigningMethod(t, id, method, time)
  \/ /\ method = "eth_sendTransaction"
     /\ \E time \in Times : HandleSendTransaction(t, id, time)
  \/ HandleOtherMethod(t, id, method)

\* -------------------------------------------------------------- request view
OpenModal ==
  /\ ~showModal
  /\ showModal' = TRUE
  /\ UNCHANGED << sessionVars, bridgeVars, credential, txError, transfer, calc >>

\* onClose: WalletConnectModal and its RequestCards are unmounted
CloseModal ==
  /\ showModal
  /\ showModal' = FALSE
  /\ flows' = LET all(r) == TRUE IN Unmount(flows, all)
  /\ UNCHANGED << sessionVars, sessionRequests, batchStatuses, responses, seen,
                  credential, txError, transfer, calc >>

Running == {"prepare", "ceremony", "facilitate"}

\* RequestCard.isProcessing of the card that shows request r
isProcessing(r) ==
  \E f \in flows : f.request = r /\ f.mounted /\ f.phase \in Running

isBatchCall(r) == r.method = "wallet_sendCalls"
isTransaction(r) == r.method = "eth_sendTransaction"
isSigningRequest(r) == r.method \in SigningMethods

FreshFlow == CHOOSE n \in 1..(Cardinality(flows) + 1) : \A f \in flows : f.fid # n

\* mutant: the card of a signing request offers "Sign with Passkey" too
SignWithPasskey_AnyMethod(i) ==
  LET request == sessionRequests[i] IN
  /\ showModal
  /\ i \in 1..Len(sessionRequests)
  /\ ~isProcessing(request)
  /\ credential.qx /\ credential.qy
  /\ Cardinality(flows) < MaxFlows
  /\ txError' = NoError
  /\ flows' = flows \cup { [fid |-> FreshFlow, request |-> request,
                            phase |-> "prepare", mounted |-> TRUE, auth |-> NoAuth] }
  /\ UNCHANGED << sessionVars, sessionRequests, batchStatuses, responses, seen,
                  showModal, credential, transfer, calc >>

\* mutant: the flow is started whatever the credential holds
handleSignWithPasskey_NoKeyCheck(i, limit) ==
  LET request == sessionRequests[i] IN
  /\ showModal
  /\ i \in 1..Len(sessionRequests)
  /\ isTransaction(request) \/ isBatchCall(request)
  /\ ~isProcessing(request)
  /\ Cardinality(flows) < limit
  /\ txError' = NoError
  /\ flows' = flows \cup { [fid |-> FreshFlow, request |-> request,
                            phase |-> "prepare", mounted |-> TRUE, auth |-> NoAuth] }
  /\ UNCHANGED << sessionVars, sessionRequests, batchStatuses, responses, seen,
                  showModal, credential, transfer, calc >>

\* "Sign with Passkey" on the card of sessionRequests[i]: handleSignWithPasskey
\* up to its early return, or up to the await of the prepare-call fetch
\* while fewer than limit calls are running
handleSignWithPasskey(i, limit) ==
  LET request == sessionRequests[i] IN
  /\ showModal
  /\ i \in 1..Len(sessionRequests)
  /\ isTransaction(request) \/ isBatchCall(request)
  /\ ~isProcessing(request)
  /\ IF ~credential.qx \/ ~credential.qy
       THEN /\ txError' = "Passkey public key not available"
            /\ UNCHANGED flows
       ELSE /\ Cardinality(flows) < limit
            /\ txError' = NoError
            /\ flows' = flows \cup { [fid |-> FreshFlow, request |-> request,
                                      phase |-> "prepare", mounted |-> TRUE,
                                      auth |-> NoAuth] }
  /\ UNCHANGED << sessionVars, sessionRequests, batchStatuses, responses, seen,
                  showModal, credential, transfer, calc >>

SignWithPasskey(i) == handleSignWithPasskey(i, MaxFlows)

Step(f, g) == flows' = (flows \ {f}) \cup {g}

\* the transport may make respondSessionRequest throw
MayThrow(ok) == ok \/ Len(responses) < MaxResponses

\* mutant: the catch block marks every registered batch as failed
Catch_EveryBatch(f, step, message, bs) ==
  /\ txError' = IF f.mounted THEN message ELSE txError
  /\ batchStatuses' =
       IF isBatchCall(f.request) /\ f.request.batchId # NoBatch
         THEN [b \in DOMAIN bs |-> Spread(bs[b], [status |-> 500])]
         ELSE bs
  /\ step \in {"prepare", "ceremony", "decode", "facilitate", "reply"}
  /\ flows' = flows \ {f}

\* the catch and finally blocks of handleSignWithPasskey; message is
\* err.message
Catch(f, step, message, bs) ==
  /\ txError' = IF f.mounted THEN message ELSE txError
  /\ batchStatuses' =
       IF isBatchCall(f.request) /\ f.request.batchId # NoBatch
         THEN updateBatchStatus(bs, f.request.batchId, [status |-> 500])
         ELSE bs
  /\ step \in {"prepare", "ceremony", "decode", "facilitate", "reply"}
  /\ flows' = flows \ {f}

\* prepare-call answered {success: true, challengeHash, deadline, calls}
PrepareOk(f) ==
  /\ f \in flows /\ f.phase = "prepare"
  /\ Step(f, [f EXCEPT !.phase = "ceremony"])
  /\ UNCHANGED << sessionVars, sessionRequests, batchStatuses, responses, seen,
                  uiVars >>

\* prepare-call failed or answered {success: false}
PrepareFail(f) ==
  /\ f \in flows /\ f.phase = "prepare"
  /\ Catch(f, "prepare", "Failed to prepare transaction", batchStatuses)
  /\ UNCHANGED << sessionVars, sessionRequests, responses, seen, showModal,
                  credential, transfer, calc >>

\* navigator.credentials.get resolved with assertion: the signature is
\* decoded and, unless the decoder threw, the authorization is built and
\* the facilitate fetch is started with it
AssertionResolved(f, assertion) ==
  LET parsed == parseAsn1Signature(assertion.signature) IN
  /\ f \in flows /\ f.phase = "ceremony"
  /\ IF parsed.ok
       THEN /\ Step(f, [f EXCEPT !.phase = "facilitate",
                                 !.auth = WebAuthnAuth(parsed, assertion)])
            /\ UNCHANGED << batchStatuses, txError >>
       ELSE Catch(f, "decode", parsed.error, batchStatuses)
  /\ UNCHANGED << sessionVars, sessionRequests, responses, seen, showModal,
                  credential, transfer, calc >>

\* navigator.credentials.get resolved with the assertion of a conforming
\* authenticator
CeremonyOk(f) == AssertionResolved(f, SampleAssertion)

\* the ceremony was cancelled or timed out (step = "ceremony"), or
\* parseAsn1Signature threw (step = "decode")
CeremonyFail(f, step) ==
  /\ step \in {"ceremony", "decode"}
  /\ IF step = "decode"
       THEN AssertionResolved(f, MalformedAssertion)
       ELSE /\ f \in flows /\ f.phase = "ceremony"
            /\ Catch(f, step, "Passkey signing cancelled", batchStatuses)
            /\ UNCHANGED << sessionVars, sessionRequests, responses, seen, showModal,
                            credential, transfer, calc >>

\* mutant: the answered request is left in the queue
approveRequest_Keep(requestId, topic, result, ok) ==
  /\ responses' = Awaited(respondSessionRequest(responses, "approveRequest", topic,
                                                ResultResponse(requestId, result)), ok)
  /\ UNCHANGED sessionRequests

\* approveRequest(requestId, topic, result); ok = FALSE: respondSessionRequest threw
approveRequest(requestId, topic, result, ok) ==
  /\ responses' = Awaited(respondSessionRequest(responses, "approveRequest", topic,
                                                ResultResponse(requestId, result)), ok)
  /\ sessionRequests' = IF ok THEN clearRequest(sessionRequests, requestId)
                              ELSE sessionRequests

\* facilitate answered {success: true, txHash}; ok = FALSE: the
\* respondSessionRequest inside approveRequest threw
FacilitateOk(f, txHash, ok) ==
  /\ f \in flows /\ f.phase = "facilitate"
  /\ IF isBatchCall(f.request)
       THEN /\ ok
            /\ batchStatuses' =
                 IF f.request.batchId # NoBatch
                   THEN updateBatchStatus(batchStatuses, f.request.batchId,
                                          [status |-> 200, txHash |-> txHash])
                   ELSE batchStatuses
            /\ sessionRequests' = clearRequest(sessionRequests, f.request.id)
            /\ flows' = CardsAfterReturn(sessionRequests', f)
            /\ UNCHANGED << responses, txError >>
       ELSE /\ MayThrow(ok)
            /\ approveRequest(f.request.id, f.request.topic, txHash, ok)
            /\ IF ok
                 THEN /\ flows' = CardsAfterReturn(sessionRequests', f)
                      /\ UNCHANGED << batchStatuses, txError >>
                 ELSE Catch(f, "reply", "Failed to respond", batchStatuses)
  /\ showModal' = onRequestReceived(sessionRequests')
  /\ UNCHANGED << sessionVars, seen, credential, transfer, calc >>

\* facilitate failed or answered without success / txHash
FacilitateFail(f) ==
  /\ f \in flows /\ f.phase = "facilitate"
  /\ Catch(f, "facilitate", "Transaction failed", batchStatuses)
  /\ UNCHANGED << sessionVars, sessionRequests, responses, seen, showModal,
                  credential, transfer, calc >>

\* mutant: the rejected request is left in the queue
rejectRequest_Keep(requestId, topic, ok) ==
  /\ responses' = Awaited(respondSessionRequest(responses, "rejectRequest", topic,
                                                ErrorResponse(requestId, 5000, "User rejected.")), ok)
  /\ UNCHANGED sessionRequests

\* rejectRequest(requestId, topic); ok = FALSE: respondSessionRequest threw
rejectRequest(requestId, topic, ok) ==
  /\ responses' = Awaited(respondSessionRequest(responses, "rejectRequest", topic,
                                                ErrorResponse(requestId, 5000, "User rejected.")), ok)
  /\ sessionRequests' = IF ok THEN clearRequest(sessionRequests, requestId)
                              ELSE sessionRequests

\* "Reject" on the card of sessionRequests[i]: handleReject
HandleReject(i, ok) ==
  LET request == sessionRequests[i] IN
  /\ showModal
  /\ i \in 1..Len(sessionRequests)
  /\ ~isProcessing(request)
  /\ IF isBatchCall(request) /\ request.batchId # NoBatch
       THEN /\ ok
            /\ batchStatuses' = updateBatchStatus(batchStatuses, request.batchId,
                                                  [status |-> 400])
            /\ sessionRequests' = clearRequest(sessionRequests, request.id)
            /\ UNCHANGED responses
       ELSE /\ MayThrow(ok)
            /\ rejectRequest(request.id, request.topic, ok)
            /\ UNCHANGED batchStatuses
  /\ showModal' = onRequestReceived(sessionRequests')
  /\ flows' = CardsAfter(sessionRequests')
  /\ UNCHANGED << sessionVars, seen, credential, txError, transfer, calc >>

\* ------------------------------------------------------------- useTransfer
\* what the transfer screen may pass: no recipient, a 42-character address,
\* a short one, one without the 0x prefix; no amount or an amount
Recipients ==
  { << >>, << "0", "x" >> \o Repeat("a", 40), << "0", "x", "a" >>, Repeat("a", 42) }
Amounts == { << >>, << "1" >> }

startsWith0x(text) == Len(text) >= 2 /\ SubSeq(text, 1, 2) = << "0", "x" >>

\* setTransferStatus of a failure: the cross, then the message
TransferFailed(message) == << "x", message >>

\* mutant: the transfer is started whatever the credential holds
handleTransfer_NoKeyCheck(finalRecipient, transferAmount) ==
  /\ transfer.phase = "idle"
  /\ transfer' =
       IF finalRecipient = << >> \/ transferAmount = << >>
         THEN [transfer EXCEPT !.status = TransferFailed("Missing required fields")]
       ELSE IF ~startsWith0x(finalRecipient) \/ Len(finalRecipient) # 42
         THEN [transfer EXCEPT !.status = TransferFailed("Invalid recipient address")]
       ELSE [phase |-> "prepare", auth |-> NoAuth,
             status |-> << "", "Preparing transfer..." >>]
  /\ UNCHANGED << sessionVars, bridgeVars, showModal, credential, txError, calc >>

\* handleTransfer(finalRecipient) up to its early returns, or up to the await
\* of the prepare-transfer fetch; the button is disabled while isTransferring
handleTransfer(finalRecipient, transferAmount) ==
  /\ transfer.phase = "idle"
  /\ transfer' =
       IF finalRecipient = << >> \/ transferAmount = << >>
         THEN [transfer EXCEPT !.status = TransferFailed("Missing required fields")]
       ELSE IF ~startsWith0x(finalRecipient) \/ Len(finalRecipient) # 42
         THEN [transfer EXCEPT !.status = TransferFailed("Invalid recipient address")]
       ELSE IF ~credential.qx \/ ~credential.qy
         THEN [transfer EXCEPT !.status = TransferFailed(
                 "Passkey public key not available. Please regenerate passkey.")]
       ELSE [phase |-> "prepare", auth |-> NoAuth,
             status |-> << "", "Preparing transfer..." >>]
  /\ UNCHANGED << sessionVars, bridgeVars, showModal, credential, txError, calc >>

\* the catch and finally blocks of handleTransfer
TransferCatch(message) ==
  transfer' = [phase |-> "idle", auth |-> NoAuth, status |-> TransferFailed(message)]

\* prepare-transfer answered; ok = its success field
TransferPrepared(ok) ==
  /\ transfer.phase = "prepare"
  /\ IF ok
       THEN transfer' = [transfer EXCEPT !.phase = "ceremony",
                                         !.status = << "", "Please sign with passkey..." >>]
       ELSE TransferCatch("Failed to prepare transfer")
  /\ UNCHANGED << sessionVars, bridgeVars, showModal, credential, txError, calc >>

\* navigator.credentials.get resolved without an assertion
TransferCeremonyFail ==
  /\ transfer.phase = "ceremony"
  /\ TransferCatch("No assertion returned from passkey")
  /\ UNCHANGED << sessionVars, bridgeVars, showModal, credential, txError, calc >>

\* navigator.credentials.get resolved with assertion: decode, build the
\* authorization, start the facilitate fetch with it
TransferAssertionResolved(assertion) ==
  LET parsed == parseAsn1Signature(assertion.signature) IN
  /\ transfer.phase = "ceremony"
  /\ IF parsed.ok
       THEN transfer' = [phase |-> "facilitate", auth |-> WebAuthnAuth(parsed, assertion),
                         status |-> << "", "Submitting transaction..." >>]
       ELSE TransferCatch(parsed.error)
  /\ UNCHANGED << sessionVars, bridgeVars, showModal, credential, txError, calc >>

\* facilitate answered; ok: with success and a txHash
TransferFacilitated(ok) ==
  /\ transfer.phase = "facilitate"
  /\ IF ok
       THEN transfer' = [phase |-> "idle", auth |-> NoAuth,
                         status |-> << "ok", "Transfer complete!" >>]
       ELSE TransferCatch("Transaction failed")
  /\ UNCHANGED << sessionVars, bridgeVars, showModal, credential, txError, calc >>

\* ---------------------------------------------------------------- Next
Next ==
  \/ InitStart
  \/ \E persisted \in SUBSET Topics : InitOk(persisted)
  \/ InitFail
  \/ \E t \in Topics, built \in BOOLEAN : HandleSessionProposal(t, built)
  \/ \E t \in Topics : ApproveSessionOk(t)
  \/ \E t \in Topics : ApproveSessionFail(t)
  \/ \E t \in Topics : RejectSessionDone(t)
  \/ \E t \in Topics : HandleSessionDelete(t)
  \/ \E valid \in BOOLEAN : Pair(valid)
  \/ PairOk
  \/ PairFail
  \/ \E t \in Topics, ok \in BOOLEAN : Disconnect(t, ok)
  \/ \E failed \in SUBSET Topics : DisconnectAll(failed)
  \/ \E t \in Topics, id \in Ids, method \in InboundMethods : HandleSessionRequest(t, id, method)
  \/ OpenModal
  \/ CloseModal
  \/ \E i \in 1..Len(sessionRequests) : SignWithPasskey(i)
  \/ \E f \in flows : PrepareOk(f)
  \/ \E f \in flows : PrepareFail(f)
  \/ \E f \in flows : CeremonyOk(f)
  \/ \E f \in flows, step \in {"ceremony", "decode"} : CeremonyFail(f, step)
  \/ \E f \in flows, txHash \in TxHashes, ok \in BOOLEAN : FacilitateOk(f, txHash, ok)
  \/ \E f \in flows : FacilitateFail(f)
  \/ \E i \in 1..Len(sessionRequests), ok \in BOOLEAN : HandleReject(i, ok)
  \/ \E f \in flows, assertion \in Assertions : AssertionResolved(f, assertion)
  \/ \E finalRecipient \in Recipients, transferAmount \in Amounts :
       handleTransfer(finalRecipient, transferAmount)
  \/ \E ok \in BOOLEAN : TransferPrepared(ok)
  \/ TransferCeremonyFail
  \/ \E assertion \in Assertions : TransferAssertionResolved(assertion)
  \/ \E ok \in BOOLEAN : TransferFacilitated(ok)

Spec == Init /\ [][Next]_vars

\* ------------------------------------------------- the bridge on live sessions
\* The state after initWalletKit restored one session per topic (InitStart,
\* then InitOk(Topics)) with a credential that has its public key: the
\* request bridge, the request view and session removal run from there.
InitBridge ==
  /\ status = "connected"
  /\ error = NoError
  /\ walletKit = TRUE
  /\ initializing = FALSE
  /\ initEffect = NoRun
  /\ kit = [t \in Topics |-> "live"]
  /\ sessionCalls = {}
  /\ activeSessions = [t \in Topics |-> ActiveSession(t)]
  /\ sessionRequests = << >>
  /\ batchStatuses = << >>
  /\ responses = << >>
  /\ seen = {}
  /\ showModal = TRUE
  /\ pairCall = NoPair
  /\ flows = {}
  /\ credential = [qx |-> TRUE, qy |-> TRUE]
  /\ txError = NoError
  /\ transfer = NoTransfer
  /\ calc = NoCalc

NextBridge ==
  \/ \E t \in Topics : HandleSessionDelete(t)
  \/ \E t \in Topics, ok \in BOOLEAN : Disconnect(t, ok)
  \/ \E failed \in SUBSET Topics : DisconnectAll(failed)
  \/ \E t \in Topics, id \in Ids, method \in InboundMethods : HandleSessionRequest(t, id, method)
  \/ OpenModal
  \/ CloseModal
  \/ \E i \in 1..Len(sessionRequests) : SignWithPasskey(i)
  \/ \E f \in flows : PrepareOk(f)
  \/ \E f \in flows : PrepareFail(f)
  \/ \E f \in flows : CeremonyOk(f)
  \/ \E f \in flows, step \in {"ceremony", "decode"} : CeremonyFail(f, step)
  \/ \E f \in flows, txHash \in TxHashes, ok \in BOOLEAN : FacilitateOk(f, txHash, ok)
  \/ \E f \in flows : FacilitateFail(f)
  \/ \E i \in 1..Len(sessionRequests), ok \in BOOLEAN : HandleReject(i, ok)

SpecBridge == InitBridge /\ [][NextBridge]_vars

\* ------------------------------------------------- the cards of the view
\* The request view on live sessions with up to MaxCards approval flows at
\* a time: eth_sendTransaction requests arrive, and the user presses "Sign
\* with Passkey" on their cards.
NextCeremony ==
  \/ \E t \in Topics, id \in Ids, time \in Times : HandleSendTransaction(t, id, time)
  \/ \E i \in 1..Len(sessionRequests) : handleSignWithPasskey(i, MaxCards)
  \/ \E f \in flows : PrepareOk(f)
  \/ \E f \in flows : PrepareFail(f)
  \/ \E f \in flows : CeremonyOk(f)
  \/ \E f \in flows, step \in {"ceremony", "decode"} : CeremonyFail(f, step)
  \/ \E f \in flows, txHash \in TxHashes, ok \in BOOLEAN : FacilitateOk(f, txHash, ok)
  \/ \E f \in flows : FacilitateFail(f)

SpecCeremony == InitBridge /\ [][NextCeremony]_vars

\* ---------------------------------------------------------- signing flows
\* The approval flow of the transactions and batches that one session sends
\* and the transfer screen, with everything an authenticator may return,
\* started with any credential: one that has both coordinates of its public
\* key, one of them, or none.
SigningTopic == CHOOSE t \in Topics : \A u \in Topics : t <= u

InitSigning ==
  /\ status = "connected"
  /\ error = NoError
  /\ walletKit = TRUE
  /\ initializing = FALSE
  /\ initEffect = NoRun
  /\ kit = [t \in Topics |-> "live"]
  /\ sessionCalls = {}
  /\ activeSessions = [t \in Topics |-> ActiveSession(t)]
  /\ sessionRequests = << >>
  /\ batchStatuses = << >>
  /\ responses = << >>
  /\ seen = {}
  /\ showModal = TRUE
  /\ pairCall = NoPair
  /\ flows = {}
  /\ credential \in [qx : BOOLEAN, qy : BOOLEAN]
  /\ txError = NoError
  /\ transfer = NoTransfer
  /\ calc = NoCalc

NextSigning ==
  \/ \E id \in Ids, time \in Times : HandleSendTransaction(SigningTopic, id, time)
  \/ \E id \in Ids, time \in Times, random \in Rands :
       HandleSendCalls(SigningTopic, id, time, random)
  \/ \E i \in 1..Len(sessionRequests) : SignWithPasskey(i)
  \/ \E f \in flows : PrepareOk(f)
  \/ \E f \in flows : PrepareFail(f)
  \/ \E f \in flows, assertion \in Assertions : AssertionResolved(f, assertion)
  \/ \E f \in flows : CeremonyFail(f, "ceremony")
  \/ \E f \in flows, txHash \in TxHashes, ok \in BOOLEAN : FacilitateOk(f, txHash, ok)
  \/ \E f \in flows : FacilitateFail(f)
  \/ \E finalRecipient \in Recipients, transferAmount \in Amounts :
       handleTransfer(finalRecipient, transferAmount)
  \/ \E ok \in BOOLEAN : TransferPrepared(ok)
  \/ TransferCeremonyFail
  \/ \E assertion \in Assertions : TransferAssertionResolved(assertion)
  \/ \E ok \in BOOLEAN : TransferFacilitated(ok)

SpecSigning == InitSigning /\ [][NextSigning]_vars

\* ------------------------------------------------------ the session manager
\* The session manager from construction on: initialization, proposals,
\* pairing and session removal, with eth_sendTransaction requests arriving
\* on the live sessions (no card of the request view is used).
NextSession ==
  \/ InitStart
  \/ \E persisted \in SUBSET Topics : InitOk(persisted)
  \/ InitFail
  \/ \E t \in Topics, built \in BOOLEAN : HandleSessionProposal(t, built)
  \/ \E t \in Topics : ApproveSessionOk(t)
  \/ \E t \in Topics : ApproveSessionFail(t)
  \/ \E t \in Topics : RejectSessionDone(t)
  \/ \E t \in Topics : HandleSessionDelete(t)
  \/ \E valid \in BOOLEAN : Pair(valid)
  \/ PairOk
  \/ PairFail
  \/ \E t \in Topics, ok \in BOOLEAN : Disconnect(t, ok)
  \/ \E failed \in SUBSET Topics : DisconnectAll(failed)
  \/ \E t \in Topics, id \in Ids, time \in Times : HandleSendTransaction(t, id, time)

SpecSession == Init /\ [][NextSession]_vars

\* Every promise the manager awaits settles: WalletKit.init, approveSession,
\* rejectSession and pair each resolve or reject.  What the peer and the
\* user do (proposals, deletions, pair, disconnect) is not forced.
Settle ==
  \/ \E persisted \in SUBSET Topics : InitOk(persisted)
  \/ InitFail
  \/ \E t \in Topics : ApproveSessionOk(t)
  \/ \E t \in Topics : ApproveSessionFail(t)
  \/ \E t \in Topics : RejectSessionDone(t)
  \/ PairOk
  \/ PairFail

SpecSessionFair == SpecSession /\ WF_vars(Settle)

\* ------------------------------------------------------------ vocabulary
Range(seq) == { seq[i] : i \in 1..Len(seq) }

\* the step made exactly one call of respondSessionRequest
Responded == Len(responses') = Len(responses) + 1 /\ SubSeq(responses', 1, Len(responses)) = responses
NewResponse == responses'[Len(responses')]

IsResult(entry) == "result" \in DOMAIN entry.response
IsError(entry) == "error" \in DOMAIN entry.response

\* the respondSessionRequest calls made for request (t, id)
ResponsesTo(log, t, id) ==
  { i \in 1..Len(log) : log[i].topic = t /\ log[i].response.id = id }

TypeOK ==
  /\ status \in Statuses
  /\ walletKit \in BOOLEAN

\* ------------------------------------------------------------------ claims

\* the batchIds that wallet_sendCalls replies carried
RepliedBatchIds(log) ==
  { log[i].response.result.id :
      i \in { j \in 1..Len(log) : log[j].via = "wallet_sendCalls" } }

C1_SendCallsStep ==
  \A t \in Topics, id \in Ids, time \in Times, random \in Rands :
    HandleSendCalls(t, id, time, random) =>
      /\ Responded
      /\ NewResponse.topic = t
      /\ NewResponse.response.id = id
      /\ IsResult(NewResponse)
      /\ LET batchId == NewResponse.response.result.id
             queued == sessionRequests'[Len(sessionRequests')]
         IN /\ NewResponse.response.result = [id |-> batchId]
            /\ batchId \in DOMAIN batchStatuses'
            /\ batchStatuses'[batchId].batchId = batchId
            /\ batchStatuses'[batchId].status = 100
            /\ Len(sessionRequests') = Len(sessionRequests) + 1
            /\ SubSeq(sessionRequests', 1, Len(sessionRequests)) = sessionRequests
            /\ queued.batchId = batchId
            /\ queued.topic = t /\ queued.id = id
            /\ queued.method = "wallet_sendCalls"

C1_PollFinds ==
  \A t \in Topics, id \in Ids, batchId \in RepliedBatchIds(responses) :
    HandleGetCallsStatus(t, id, batchId) =>
      /\ Responded
      /\ IsResult(NewResponse)
      /\ NewResponse.response.result.id = batchId

\* C1: the step that handles a wallet_sendCalls registers a BatchStatus with
\* status 100 under the minted batchId, appends a SessionRequest that carries
\* that batchId and sends the reply {id: batchId}; every batchId a reply
\* carried stays registered, and a wallet_getCallsStatus for it is answered
\* with its status record.
C1_RegisteredBeforeReply ==
  [][ /\ C1_SendCallsStep
      /\ C1_PollFinds
      /\ RepliedBatchIds(responses') \subseteq DOMAIN batchStatuses' ]_vars

\* a poll for a batchId that an earlier reply carried was answered
C1_Witness ==
  \E i, j \in 1..Len(responses) :
    /\ i < j
    /\ responses[i].via = "wallet_sendCalls"
    /\ responses[j].via = "wallet_getCallsStatus"
    /\ IsResult(responses[j])
    /\ responses[j].response.result.id = responses[i].response.result.id

\* a wallet_getCallsStatus result that carries the transaction hash: as a
\* txHash field or inside a receipt
Carries(result, txHash) ==
  \/ "txHash" \in DOMAIN result /\ result.txHash = txHash
  \/ /\ "receipts" \in DOMAIN result
     /\ \E k \in 1..Len(result.receipts) : result.receipts[k].transactionHash = txHash

\* C2: a wallet_getCallsStatus poll for a registered batchId answered before
\* any status update carries status 100; a poll answered after the
\* facilitation of the batch succeeded carries status 200 and the transaction
\* hash the facilitator returned.
C2_PollCarriesStatusAndHash ==
  [][ \A t \in Topics, id \in Ids, batchId \in DOMAIN batchStatuses :
        HandleGetCallsStatus(t, id, batchId) =>
          /\ Responded
          /\ IsResult(NewResponse)
          /\ LET current == batchStatuses[batchId]
                 result == NewResponse.response.result
             IN /\ (current = initialStatus(batchId, current.chainId))
                      => result.status = 100
                /\ ("txHash" \in DOMAIN current)
                      => result.status = 200 /\ Carries(result, current.txHash) ]_vars

UnknownBatchIdResponse(id) ==
  [id |-> id, jsonrpc |-> "2.0",
   error |-> [code |-> 5730, message |-> "Unknown batch id"]]

\* C3: a wallet_getCallsStatus for a batchId without a BatchStatus makes one
\* respondSessionRequest call, on the request's topic, with the JSON-RPC
\* error of code 5730, and changes neither the request queue nor the
\* BatchStatus map, the sessions or the connection status.
C3_UnknownBatchId ==
  [][ \A t \in Topics, id \in Ids, batchId \in BatchIds \ DOMAIN batchStatuses :
        HandleGetCallsStatus(t, id, batchId) =>
          /\ Responded
          /\ NewResponse.topic = t
          /\ NewResponse.response = UnknownBatchIdResponse(id)
          /\ UNCHANGED << sessionRequests, batchStatuses, activeSessions, kit,
                          status, error, flows >> ]_vars

\* an unknown batchId was polled and answered
C3_Witness ==
  \E i \in 1..Len(responses) :
    /\ responses[i].via = "wallet_getCallsStatus"
    /\ IsError(responses[i])
    /\ responses[i].response.error.code = 5730

\* C4: no step removes a BatchStatus from the map, whatever it does to the
\* queue and the sessions, and a wallet_getCallsStatus for a registered
\* batchId is answered with its status record, never with error 5730.
C4_BatchStatusNeverRemoved ==
  [][ /\ DOMAIN batchStatuses \subseteq DOMAIN batchStatuses'
      /\ \A t \in Topics, id \in Ids, batchId \in DOMAIN batchStatuses :
           HandleGetCallsStatus(t, id, batchId) =>
             /\ Responded
             /\ IsResult(NewResponse)
             /\ NewResponse.response.result.id = batchId ]_vars

\* a batch whose request left the queue and whose session is gone was polled
\* from another session and its final status was reported
C4_Witness ==
  \E i, j \in 1..Len(responses) :
    /\ i < j
    /\ responses[i].via = "wallet_sendCalls"
    /\ kit[responses[i].topic] = "deleted"
    /\ responses[j].via = "wallet_getCallsStatus"
    /\ IsResult(responses[j])
    /\ responses[j].response.result.id = responses[i].response.result.id
    /\ responses[j].response.result.status \in {200, 400}
    /\ sessionRequests = << >>

UserDecided ==
  \/ \E f \in flows, txHash \in TxHashes, ok \in BOOLEAN : FacilitateOk(f, txHash, ok)
  \/ \E i \in 1..Len(sessionRequests), ok \in BOOLEAN : HandleReject(i, ok)

\* the eth_sendTransaction requests that wait in the queue or in a running
\* approval flow
WaitingTransactions ==
  { r \in Range(sessionRequests) \cup { f.request : f \in flows } : isTransaction(r) }

\* C5: the step that handles an eth_sendTransaction appends exactly one
\* SessionRequest for it and makes no respondSessionRequest call; a call for
\* a waiting eth_sendTransaction request is made only by approveRequest or
\* rejectRequest, in a step of the user's approval or rejection.
C5_TransactionDeferred ==
  [][ /\ \A t \in Topics, id \in Ids, time \in Times :
           HandleSendTransaction(t, id, time) =>
             /\ Len(sessionRequests') = Len(sessionRequests) + 1
             /\ SubSeq(sessionRequests', 1, Len(sessionRequests)) = sessionRequests
             /\ LET queued == sessionRequests'[Len(sessionRequests')]
                IN queued.topic = t /\ queued.id = id /\ isTransaction(queued)
             /\ responses' = responses
      /\ \A r \in WaitingTransactions :
           ResponsesTo(responses', r.topic, r.id) # ResponsesTo(responses, r.topic, r.id) =>
             /\ Responded
             /\ NewResponse.via \in {"approveRequest", "rejectRequest"}
             /\ UserDecided ]_vars

\* one eth_sendTransaction request waits unanswered while the deferred
\* response of another was sent by approveRequest
C5_Witness ==
  /\ \E r \in Range(sessionRequests) :
       isTransaction(r) /\ ResponsesTo(responses, r.topic, r.id) = {}
  /\ \E i \in 1..Len(responses) : responses[i].via = "approveRequest"

TransactionResult(id, txHash) == [id |-> id, jsonrpc |-> "2.0", result |-> txHash]

C7_BatchApproved ==
  [][ /\ \A f \in flows, txHash \in TxHashes :
           (FacilitateOk(f, txHash, TRUE) /\ isBatchCall(f.request)) =>
             /\ batchStatuses'[f.request.batchId].status = 200
             /\ batchStatuses'[f.request.batchId].txHash = txHash
             /\ ~InQueue(sessionRequests', f.request)
             /\ responses' = responses
      /\ \A i \in 1..Len(responses') :
           responses'[i].via = "wallet_sendCalls" =>
             ResponsesTo(responses', responses'[i].topic, responses'[i].response.id) = {i} ]_vars

\* a batch was relayed: status 200 with a hash, its request gone from the queue
C7_Witness ==
  \E batchId \in DOMAIN batchStatuses :
    /\ batchStatuses[batchId].status = 200
    /\ batchStatuses[batchId].txHash \in TxHashes
    /\ \A r \in Range(sessionRequests) : r.batchId # batchId
    /\ batchId \in RepliedBatchIds(responses)

\* a step of handleSignWithPasskey that ends in its catch block: the prepare
\* call, the ceremony, the signature decoding, the facilitation or the
\* sending of the reply failed
FlowFails(f) ==
  \/ PrepareFail(f)
  \/ \E step \in {"ceremony", "decode"} : CeremonyFail(f, step)
  \/ FacilitateFail(f)
  \/ \E txHash \in TxHashes : FacilitateOk(f, txHash, FALSE)

FailureCodes == {400, 500}

\* C8: when a step of the approval flow of a request fails, a request with a
\* batchId gets its BatchStatus set to a failure code, and a request without
\* a batchId gets a JSON-RPC error sent as the reply to its deferred RPC.
C8_FailureReported ==
  [][ \A f \in flows :
        FlowFails(f) =>
          IF f.request.batchId # NoBatch
            THEN batchStatuses'[f.request.batchId].status \in FailureCodes
            ELSE /\ Responded
                 /\ IsError(NewResponse)
                 /\ NewResponse.topic = f.request.topic
                 /\ NewResponse.response.id = f.request.id ]_vars

\* what the catch block does instead: a request with a batchId gets its
\* BatchStatus set to 500; a request without a batchId gets no rejection (no
\* error response is sent for it, no BatchStatus changes).  In both cases
\* the queue is left as it is, so the request stays with the user.
CatchKeepsRequest ==
  [][ \A f \in flows :
        FlowFails(f) =>
          /\ sessionRequests' = sessionRequests
          /\ IF f.request.batchId # NoBatch
               THEN /\ batchStatuses'[f.request.batchId].status = 500
                    /\ responses' = responses
               ELSE /\ batchStatuses' = batchStatuses
                    /\ \/ responses' = responses
                       \/ /\ Responded
                          /\ NewResponse.via = "approveRequest"
                          /\ IsResult(NewResponse) ]_vars

\* a failed batch: status 500 while its request is still in the queue
FailedBatchStillQueued ==
  \E r \in Range(sessionRequests) :
    /\ r.batchId # NoBatch
    /\ batchStatuses[r.batchId].status = 500

UserRejectedResponse(id) ==
  [id |-> id, jsonrpc |-> "2.0", error |-> [code |-> 5000, message |-> "User rejected."]]

\* C9: when the user rejects a queued request, a request with a batchId gets
\* BatchStatus 400, leaves the queue and no response is sent; every other
\* request gets the error 'User rejected.' (code 5000) sent on its topic and
\* leaves the queue.
C9_RejectedAndRemoved ==
  [][ \A i \in 1..Len(sessionRequests), ok \in BOOLEAN :
        HandleReject(i, ok) =>
          LET request == sessionRequests[i] IN
          IF request.batchId # NoBatch
            THEN /\ batchStatuses'[request.batchId].status = 400
                 /\ ~InQueue(sessionRequests', request)
                 /\ responses' = responses
            ELSE /\ Responded
                 /\ NewResponse.topic = request.topic
                 /\ NewResponse.response = UserRejectedResponse(request.id)
                 /\ ~InQueue(sessionRequests', request) ]_vars

\* C9 (amended): as C9, but a request without a batchId leaves the queue
\* only if the respondSessionRequest call that carries the error succeeds;
\* if that call throws, the queue is unchanged.
C9_Rejected ==
  [][ \A i \in 1..Len(sessionRequests), ok \in BOOLEAN :
        HandleReject(i, ok) =>
          LET request == sessionRequests[i] IN
          IF request.batchId # NoBatch
            THEN /\ batchStatuses'[request.batchId].status = 400
                 /\ ~InQueue(sessionRequests', request)
                 /\ responses' = responses
            ELSE /\ Responded
                 /\ NewResponse.topic = request.topic
                 /\ NewResponse.response = UserRejectedResponse(request.id)
                 /\ batchStatuses' = batchStatuses
                 /\ ok => ~InQueue(sessionRequests', request)
                 /\ ~ok => sessionRequests' = sessionRequests ]_vars

\* a batch was rejected (status 400, request gone) and another request was
\* rejected with the error response
C9_Witness ==
  /\ \E batchId \in DOMAIN batchStatuses :
       /\ batchStatuses[batchId].status = 400
       /\ \A r \in Range(sessionRequests) : r.batchId # batchId
  /\ \E i \in 1..Len(responses) :
       /\ responses[i].via = "rejectRequest"
       /\ \A r \in Range(sessionRequests) :
            ~(r.topic = responses[i].topic /\ r.id = responses[i].response.id)

\* the hex digits of 1 and of 8453
SupportedChainsHex == { << 1 >>, << 2, 1, 0, 5 >> }

\* C10: wallet_getCapabilities, eth_accounts and eth_requestAccounts are each
\* answered in the step that handles them with exactly one response, on the
\* request's topic: the capabilities of chains 0x1 and 0x2105, or the wallet
\* address; the step changes neither the queue nor a BatchStatus.
C10_AnsweredFromLocalState ==
  [][ /\ \A t \in Topics, id \in Ids :
           HandleGetCapabilities(t, id) =>
             /\ Responded
             /\ NewResponse.topic = t
             /\ NewResponse.response.id = id
             /\ IsResult(NewResponse)
             /\ DOMAIN NewResponse.response.result = SupportedChainsHex
             /\ \A c \in SupportedChainsHex :
                  NewResponse.response.result[c] = [atomic |-> [status |-> "supported"]]
             /\ UNCHANGED << sessionRequests, batchStatuses >>
      /\ \A t \in Topics, id \in Ids, method \in {"eth_accounts", "eth_requestAccounts"} :
           HandleAccounts(t, id, method) =>
             /\ Responded
             /\ NewResponse.topic = t
             /\ NewResponse.response.id = id
             /\ IsResult(NewResponse)
             /\ NewResponse.response.result = << smartWalletAddress >>
             /\ UNCHANGED << sessionRequests, batchStatuses >> ]_vars

\* a capability query and an account query were answered while a request
\* waited in the queue
C10_Witness ==
  /\ \E i \in 1..Len(responses) : responses[i].via = "wallet_getCapabilities"
  /\ \E i \in 1..Len(responses) :
       responses[i].via \in {"eth_accounts", "eth_requestAccounts"}

\* the respondSessionRequest call of this step answers request r
Answers(r) ==
  /\ Responded
  /\ NewResponse.topic = r.topic
  /\ NewResponse.response.id = r.id

\* C11: a personal_sign, eth_sign, eth_signTypedData or eth_signTypedData_v4
\* request is appended to the queue without a response; no approval flow
\* (prepare call, ceremony, facilitate call) ever runs for it, and the only
\* response it ever gets is the rejection error, never a result.
C11_SigningOnlyRejected ==
  [][ /\ \A t \in Topics, id \in Ids, method \in SigningMethods, time \in Times :
           HandleSigningMethod(t, id, method, time) =>
             /\ Len(sessionRequests') = Len(sessionRequests) + 1
             /\ sessionRequests'[Len(sessionRequests')].method = method
             /\ sessionRequests'[Len(sessionRequests')].id = id
             /\ sessionRequests'[Len(sessionRequests')].topic = t
             /\ responses' = responses
      /\ \A f \in flows' : ~isSigningRequest(f.request)
      /\ \A r \in Range(sessionRequests) :
           (isSigningRequest(r) /\ Answers(r)) =>
               /\ NewResponse.via = "rejectRequest"
               /\ IsError(NewResponse)
               /\ ~IsResult(NewResponse) ]_vars

\* a signing request waits in the queue after a rejection of it was sent and
\* the transport threw
C11_Witness ==
  \E r \in Range(sessionRequests) :
    /\ isSigningRequest(r)
    /\ \E i \in ResponsesTo(responses, r.topic, r.id) :
         responses[i].via = "rejectRequest"

\* C12: a request whose method no branch of handleSessionRequest handles
\* gets no response and changes nothing: the queue, the BatchStatus map,
\* the ActiveSession list and the connection status stay as they were.
C12_OtherMethodIgnored ==
  [][ \A t \in Topics, id \in Ids, method \in InboundMethods :
        HandleOtherMethod(t, id, method) =>
          /\ method \notin SUPPORTED_METHODS
          /\ responses' = responses
          /\ sessionRequests' = sessionRequests
          /\ batchStatuses' = batchStatuses
          /\ activeSessions' = activeSessions
          /\ status' = status
          /\ flows' = flows ]_vars

\* the only request delivered so far, on a session that is still listed,
\* was of an unhandled method: it is neither queued nor answered
C12_Witness ==
  /\ Cardinality(seen) = 1
  /\ \A d \in seen :
       /\ kit[d[1]] = "live"
       /\ d[1] \in ActiveTopics
       /\ ResponsesTo(responses, d[1], d[2]) = {}
       /\ \A r \in Range(sessionRequests) : ~(r.topic = d[1] /\ r.id = d[2])
  /\ responses = << >>
  /\ sessionRequests = << >>
  /\ DOMAIN batchStatuses = {}

\* the entries of a list or queue that belong to topics other than t
OtherTopics(seq, t) == LET other(e) == e.topic # t IN SelectSeq(seq, other)

\* a session deletion for topic t: the peer's session_delete event or a
\* disconnect(t) whose disconnectSession call succeeded
SessionDeleted(t) == HandleSessionDelete(t) \/ Disconnect(t, TRUE)

\* C13: after a session deletion for topic t no ActiveSession and no queued
\* request of topic t remains, the entries of other topics are unchanged,
\* and if no ActiveSession remains the status is ready.
C13_SessionDeletion ==
  [][ \A t \in Topics :
        SessionDeleted(t) =>
          /\ OtherTopics(activeSessions', t) = activeSessions'
          /\ OtherTopics(sessionRequests', t) = sessionRequests'
          /\ activeSessions' = OtherTopics(activeSessions, t)
          /\ sessionRequests' = OtherTopics(sessionRequests, t)
          /\ (activeSessions' = << >>) => status' = "ready" ]_vars

\* the list shows exactly the sessions the transport holds
ListMatchesTransport == ActiveTopics = getActiveSessions

\* where the list shows exactly the transport's sessions, a session deletion
\* does what C13 says
SessionDeletionWhereListed ==
  [][ \A t \in Topics :
        (SessionDeleted(t) /\ ListMatchesTransport) =>
          /\ OtherTopics(activeSessions', t) = activeSessions'
          /\ OtherTopics(sessionRequests', t) = sessionRequests'
          /\ activeSessions' = OtherTopics(activeSessions, t)
          /\ sessionRequests' = OtherTopics(sessionRequests, t)
          /\ (activeSessions' = << >>) => status' = "ready" ]_vars

ApproveSessionCall(t) ==
  [call |-> "approveSession", id |-> t, namespaces |-> ourSupportedNamespaces]

RejectSessionCall(t) ==
  [call |-> "rejectSession", id |-> t, reason |-> "USER_REJECTED"]

\* the capability set of the wallet: chains 1 and 8453, the supported
\* methods and events, one account per chain bound to the wallet address
FixedCapabilities(namespaces) ==
  /\ DOMAIN namespaces = {"eip155"}
  /\ namespaces.eip155.chains = { << "eip155", 1 >>, << "eip155", 8453 >> }
  /\ namespaces.eip155.methods = SUPPORTED_METHODS
  /\ namespaces.eip155.events = { "accountsChanged", "chainChanged" }
  /\ namespaces.eip155.accounts =
       { << "eip155", 1, smartWalletAddress >>, << "eip155", 8453, smartWalletAddress >> }

C15_FailedProposalRejected ==
  [][ \A t \in Topics :
        /\ (HandleSessionProposal(t, FALSE) \/ ApproveSessionFail(t)) =>
             /\ RejectSessionCall(t) \in sessionCalls' \ sessionCalls
             /\ error' = error
             /\ activeSessions' = activeSessions
        /\ RejectSessionDone(t) =>
             /\ RejectSessionCall(t) \in sessionCalls
             /\ error' = "Failed to approve session"
             /\ activeSessions' = activeSessions
        /\ kit'[t] \in {"rejecting", "rejected"} => RejectSessionCall(t) \in sessionCalls'
        /\ kit'[t] \in {"proposed", "rejecting", "rejected"} =>
             \E c \in sessionCalls' : c.id = t ]_vars

\* the approval of a proposal was sent and failed; the proposal was rejected
\* and the error is shown
C15_Witness ==
  \E t \in Topics :
    /\ kit[t] = "rejected"
    /\ ApproveSessionCall(t) \in sessionCalls
    /\ RejectSessionCall(t) \in sessionCalls
    /\ error = "Failed to approve session"
    /\ t \notin ActiveTopics

\* C16: pair(uri) with a uri that does not start with "wc:" only sets the
\* error message: no pair call is started at the transport, and the status,
\* the ActiveSession list and the request queue are unchanged.
C16_InvalidUri ==
  [][ Pair(FALSE) =>
        /\ error' = "Invalid WalletConnect URI"
        /\ pairCall' = pairCall
        /\ status' = status
        /\ activeSessions' = activeSessions
        /\ sessionRequests' = sessionRequests
        /\ kit' = kit ]_vars

\* an invalid uri was refused while a session and a request were there
C16_Witness ==
  /\ error = "Invalid WalletConnect URI"
  /\ status = "connected"
  /\ pairCall = NoPair
  /\ Len(activeSessions) > 0
  /\ Len(sessionRequests) > 0

\* C17: when the transport's pair call fails, the status becomes connected
\* if the ActiveSession list is non-empty at that moment and ready
\* otherwise, never error, also when a session was added or deleted while
\* the call was in flight.
C17_PairFailureFallsBack ==
  [][ PairFail =>
        /\ status' # "pairing"
        /\ status' # "error"
        /\ status' = IF Len(activeSessions) > 0 THEN "connected" ELSE "ready" ]_vars

\* the part of C17 that the code keeps: a failed pair call ends in ready or
\* connected, never in pairing or error
PairFailureLeavesPairing ==
  [][ PairFail => status' \in {"ready", "connected"} ]_vars

\* C18: the manager never gets stuck in pairing: a state with status
\* pairing is always followed by a state with status ready or connected,
\* whether the pair call fails or succeeds.
C18_NeverStuckInPairing ==
  (status = "pairing") ~> (status \in {"ready", "connected"})

\* the status is pairing and no promise is awaited: the pair call resolved,
\* no approveSession or rejectSession call is pending.  Only a further
\* event of a peer (a proposal that is approved, the deletion of the last
\* session) changes the status from here; a topic is still free for one.
PairingWithNothingPending ==
  /\ status = "pairing"
  /\ pairCall = NoPair
  /\ ~initializing
  /\ \A t \in Topics : kit[t] \notin {"proposed", "rejecting"}
  /\ \E t \in Topics : kit[t] = "unborn"

\* C19: when initialization succeeds, the sessions the transport persisted
\* are the ActiveSession list, and the status is connected if that list is
\* non-empty and ready if it is empty; when initialization fails the status
\* is error.
C19_Initialization ==
  [][ /\ \A persisted \in SUBSET Topics :
           InitOk(persisted) =>
             /\ Len(activeSessions') = Cardinality(persisted)
             /\ { activeSessions'[i] : i \in 1..Len(activeSessions') } =
                  { [topic |-> t, peerMeta |-> PeerMeta(t), expiry |-> 7] : t \in persisted }
             /\ status' = IF Len(activeSessions') > 0 THEN "connected" ELSE "ready"
      /\ InitFail =>
           /\ status' = "error"
           /\ activeSessions' = activeSessions ]_vars

\* initialization has just restored sessions: they are listed and the
\* status is connected
C19_Witness ==
  /\ walletKit
  /\ status = "connected"
  /\ sessionCalls = {}
  /\ Len(activeSessions) = MaxTopics
  /\ ActiveTopics = getActiveSessions

\* the approval flows that await navigator.credentials.get
InCeremony == { f \in flows : f.phase = "ceremony" }

\* C20: at most one passkey assertion ceremony is in flight for the
\* credential at any moment: while one approval flow awaits the ceremony,
\* no second one is started, whichever queued request triggers it.
C20_OneCeremonyAtATime ==
  Cardinality(InCeremony) <= 1

\* --------------------------------------------------------- signing flows
KeyMissing == ~credential.qx \/ ~credential.qy

KEY_MISSING == "Passkey public key not available"
TRANSFER_KEY_MISSING == "Passkey public key not available. Please regenerate passkey."

\* the calls in flight: prepare, ceremony or facilitate of a request card or
\* of the transfer screen
CallsInFlight ==
  { f \in flows : f.phase \in Running } \cup
    (IF transfer.phase \in Running THEN {transfer} ELSE {})

\* C21: when the credential lacks qx or qy, "Sign with Passkey" on a queued
\* request and the transfer both stop with an explicit error: no prepare
\* call, ceremony or facilitate call is ever in flight, and the queue, the
\* BatchStatus map, the replies and the sessions stay as they are.
C21_KeylessSigningRefused ==
  /\ [](KeyMissing => CallsInFlight = {})
  /\ [][ KeyMissing =>
          /\ \A i \in 1..Len(sessionRequests) :
               SignWithPasskey(i) =>
                 /\ txError' = KEY_MISSING
                 /\ UNCHANGED << sessionRequests, batchStatuses, responses,
                                 activeSessions, status, kit, flows, transfer >>
          /\ \A finalRecipient \in Recipients, transferAmount \in Amounts :
               handleTransfer(finalRecipient, transferAmount) =>
                 /\ transfer'.phase = "idle"
                 /\ transfer'.status[1] = "x"
                 /\ (finalRecipient = << "0", "x" >> \o Repeat("a", 40)
                       /\ transferAmount # << >>)
                      => transfer'.status = TransferFailed(TRANSFER_KEY_MISSING)
                 /\ UNCHANGED << sessionRequests, batchStatuses, responses,
                                 activeSessions, status, kit, flows, txError >> ]_vars

\* a credential with only one coordinate: the card of a queued request and
\* the transfer screen both show the refusal
C21_Witness ==
  /\ credential = [qx |-> TRUE, qy |-> FALSE]
  /\ Len(sessionRequests) > 0
  /\ txError = KEY_MISSING
  /\ transfer.status = TransferFailed(TRANSFER_KEY_MISSING)

\* where DER puts the tags of SEQUENCE { INTEGER r, INTEGER s }: the SEQUENCE
\* tag first, the tag of r after the SEQUENCE length (one byte, or 0x80 + k
\* and k more bytes), the tag of s after the content of r
TagOfR(bytes) ==
  IF At(bytes, 1) >= 128 THEN 2 + (At(bytes, 1) - 128) ELSE 2
TagOfS(bytes) ==
  IF At(bytes, TagOfR(bytes) + 1) = Undefined THEN Len(bytes)
  ELSE TagOfR(bytes) + 2 + At(bytes, TagOfR(bytes) + 1)
TagMissing(bytes) ==
  \/ At(bytes, 0) # SEQUENCE_TAG
  \/ At(bytes, TagOfR(bytes)) # INTEGER_TAG
  \/ At(bytes, TagOfS(bytes)) # INTEGER_TAG

TagMissingAssertions == { a \in Assertions : TagMissing(a.signature) }

TagErrors ==
  { "Invalid ASN.1 signature: expected SEQUENCE",
    "Invalid ASN.1 signature: expected INTEGER for r",
    "Invalid ASN.1 signature: expected INTEGER for s" }

\* C22: when the signature of the assertion lacks the SEQUENCE tag or one of
\* the INTEGER tags, the signing flow ends there with the decoder's error: the
\* card (or the transfer screen) shows it and the flow never starts the
\* facilitate call.
C22_MalformedSignatureAborts ==
  [][ /\ \A f \in flows, assertion \in TagMissingAssertions :
           AssertionResolved(f, assertion) =>
             /\ \A g \in flows' : g.fid # f.fid
             /\ f.mounted => txError' \in TagErrors
      /\ \A assertion \in TagMissingAssertions :
           TransferAssertionResolved(assertion) =>
             /\ transfer'.phase = "idle"
             /\ transfer'.auth = NoAuth
             /\ \E message \in TagErrors : transfer'.status = TransferFailed(message) ]_vars

\* a card whose flow the decoder has just ended: the request is still
\* queued, nothing is running, the INTEGER error is shown
C22_Witness ==
  /\ Len(sessionRequests) > 0
  /\ flows = {}
  /\ txError = "Invalid ASN.1 signature: expected INTEGER for r"
  /\ responses = << >>

\* the authorizations handed to the facilitator: the auth in the body of
\* every facilitate fetch in flight
HandedToFacilitator ==
  { f.auth : f \in { g \in flows : g.phase = "facilitate" } } \cup
    (IF transfer.phase = "facilitate" THEN {transfer.auth} ELSE {})

\* indexOf found no marker
MISSING_OFFSET == NumberToString(-1)

\* C23: packaging fails when the clientDataJSON text lacks "challenge" or
\* "type": no authorization whose challengeIndex or typeIndex stands for a
\* missing marker is handed to the facilitator.
C23_NoMissingMarkerHanded ==
  \A auth \in HandedToFacilitator :
    /\ auth.challengeIndex # MISSING_OFFSET
    /\ auth.typeIndex # MISSING_OFFSET

\* the facilitate fetch of a request card carries an authorization built
\* from a text without "type"
C23_MissingMarkerHanded ==
  \E f \in flows :
    /\ f.phase = "facilitate"
    /\ f.auth.clientDataJSON = ClientDataNoType
    /\ f.auth.typeIndex = << "-", "1" >>

\* the same on the transfer screen, from a text without "challenge"
C23_TransferMissingMarkerHanded ==
  /\ transfer.phase = "facilitate"
  /\ transfer.auth.clientDataJSON = ClientDataNoChallenge
  /\ transfer.auth.challengeIndex = << "-", "1" >>

\* the value of a hex digit, -1 for any other character
HexValue(c) ==
  IF \E d \in 1..16 : HexChars[d] = c
    THEN (CHOOSE d \in 1..16 : HexChars[d] = c) - 1
    ELSE -1

\* "0x" and exactly 64 hex digits: 32 bytes
IsComponentHex(text) ==
  /\ Len(text) = 2 + 2 * COMPONENT_SIZE
  /\ SubSeq(text, 1, 2) = << "0", "x" >>
  /\ \A i \in 3..Len(text) : HexValue(text[i]) >= 0

\* the 32 bytes that such a text encodes
ComponentBytes(text) ==
  [i \in 1..COMPONENT_SIZE |-> 16 * HexValue(text[2 * i + 1]) + HexValue(text[2 * i + 2])]

\* C24: every authorization handed to the facilitator has r and s encoded as
\* exactly 32 bytes (64 hex digits) each, and s at most floor(n/2), whatever
\* s in 0 .. 2^256 - 1 the decoder read.
C24_CanonicalSignatureHanded ==
  \A auth \in HandedToFacilitator :
    /\ IsComponentHex(auth.r)
    /\ IsComponentHex(auth.s)
    /\ ~Greater(ComponentBytes(auth.s), halfOrder)

\* an authorization in flight whose s is not 64 hex digits: it holds the
\* minus sign of n - s for a decoded s above n
C24_NegativeSHanded ==
  \E auth \in HandedToFacilitator :
    /\ Len(auth.s) = 2 + 2 * COMPONENT_SIZE
    /\ \E i \in 3..Len(auth.s) : auth.s[i] = "-"

\* ------------------------------------------------- the functions on their own
\* The functions of utils/crypto.ts and App.tsx applied to inputs drawn from a
\* bounded set, while the session manager is not started: calc holds the
\* function, its input and the results of applying it, in order.
machineVars == << sessionVars, bridgeVars, showModal, credential, txError, transfer >>

InitCalc(fn, inputs) ==
  /\ calc \in { [fn |-> fn, input |-> x, output |-> << >>] : x \in inputs }
  /\ status = "idle"
  /\ error = NoError
  /\ walletKit = FALSE
  /\ initializing = FALSE
  /\ initEffect = NoRun
  /\ kit = [t \in Topics |-> "unborn"]
  /\ sessionCalls = {}
  /\ activeSessions = << >>
  /\ sessionRequests = << >>
  /\ batchStatuses = << >>
  /\ responses = << >>
  /\ seen = {}
  /\ showModal = FALSE
  /\ pairCall = NoPair
  /\ flows = {}
  /\ credential = [qx |-> FALSE, qy |-> FALSE]
  /\ txError = NoError
  /\ transfer = NoTransfer

\* the carry into byte i of a + b: the bytes after i add up to 2^8k or more
Carry(a, b, i) ==
  IF \E k \in (i + 1)..Len(a) :
       a[k] + b[k] >= 256 /\ \A j \in (i + 1)..(k - 1) : a[j] + b[j] = 255
    THEN 1 ELSE 0

\* a + b for two magnitudes, modulo 2^256
Add(a, b) == [i \in 1..Len(a) |-> (a[i] + b[i] + Carry(a, b, i)) % 256]

MaxDelta == 7
Deltas == { PadTo32(<< k >>) : k \in 0..MaxDelta }

\* s around 0, n/2, n and 2^256
NormalizeInputs ==
  { BigIntOf(d) : d \in Deltas }
    \cup { BigIntOf(Sub(halfOrder, d)) : d \in Deltas }
    \cup { BigIntOf(Add(halfOrder, Add(d, One32))) : d \in Deltas }
    \cup { BigIntOf(Sub(curveOrder, Add(d, One32))) : d \in Deltas }
    \cup { BigIntOf(Add(curveOrder, d)) : d \in Deltas }
    \cup { BigIntOf(Sub(Max32, d)) : d \in Deltas }

\* normalizeS applied to the input, then to its own result
ApplyNormalizeS ==
  /\ calc.fn = "normalizeS"
  /\ Len(calc.output) < 2
  /\ calc' = [calc EXCEPT !.output =
                Append(@, normalizeS(IF @ = << >> THEN calc.input ELSE @[Len(@)]))]
  /\ UNCHANGED machineVars

SpecNormalizeS == InitCalc("normalizeS", NormalizeInputs) /\ [][ApplyNormalizeS]_vars

\* 0 < s < n
InRange(s) == ~s.neg /\ s.mag # Zero32 /\ Greater(curveOrder, s.mag)

\* out = n - s, as integers
IsOrderMinus(out, s) ==
  IF Greater(s.mag, curveOrder)
    THEN out.neg /\ Add(curveOrder, out.mag) = s.mag
    ELSE ~out.neg /\ Add(out.mag, s.mag) = curveOrder

\* C25: normalizeS(s) is n - s when s > floor(n/2) and s otherwise; for
\* 0 < s < n the result is at most floor(n/2), is s or n - s, and normalizing
\* it again returns it unchanged.
C25_LowS ==
  (calc.fn = "normalizeS" /\ Len(calc.output) >= 1) =>
    LET s == calc.input
        out == calc.output[1]
    IN /\ Add(Add(halfOrder, halfOrder), One32) = curveOrder
       /\ Greater(s.mag, halfOrder) => IsOrderMinus(out, s)
       /\ ~Greater(s.mag, halfOrder) => out = s
       /\ InRange(s) =>
            /\ ~out.neg /\ ~Greater(out.mag, halfOrder)
            /\ out = s \/ IsOrderMinus(out, s)
            /\ Len(calc.output) = 2 => calc.output[2] = out

\* s = n - 1 has been normalized to 1, and 1 to itself
C25_Witness ==
  /\ calc.fn = "normalizeS"
  /\ calc.input = BigIntOf(Sub(curveOrder, One32))
  /\ calc.output = << BigIntOf(One32), BigIntOf(One32) >>

\* every SEQUENCE of two INTEGERs built from the INTEGER contents, the long
\* form, and the malformed signatures
DecoderInputs ==
  { Der(rBytes, sBytes) : rBytes \in Components, sBytes \in Components }
    \cup { LongFormSignature } \cup MalformedSignatures

ApplyParseAsn1Signature ==
  /\ calc.fn = "parseAsn1Signature"
  /\ calc.output = << >>
  /\ calc' = [calc EXCEPT !.output = << parseAsn1Signature(calc.input) >>]
  /\ UNCHANGED machineVars

SpecParseAsn1Signature ==
  InitCalc("parseAsn1Signature", DecoderInputs) /\ [][ApplyParseAsn1Signature]_vars

\* the component that INTEGER content bytes stands for: left-padded with
\* zeros up to 32 bytes; one leading 0x00 dropped from more than 32 bytes
FitsIn32(bytes) ==
  \/ Len(bytes) <= COMPONENT_SIZE
  \/ bytes[1] = 0 /\ Len(bytes) = COMPONENT_SIZE + 1
Component32(bytes) ==
  IF Len(bytes) <= COMPONENT_SIZE THEN PadTo32(bytes) ELSE Tail(bytes)

\* C26: for every SEQUENCE of two INTEGERs, whatever their lengths, the
\* decoder returns r and s as 32 bytes each: padded when shorter, a leading
\* 0x00 dropped only from more than 32 bytes, truncated when still longer;
\* it does not fail because of a length.
C26_DecodesEveryLength ==
  \A rBytes \in Components, sBytes \in Components :
    (calc.fn = "parseAsn1Signature" /\ calc.input = Der(rBytes, sBytes)
       /\ calc.output # << >>) =>
      LET out == calc.output[1] IN
      /\ out.ok
      /\ Len(out.r.mag) = COMPONENT_SIZE /\ Len(out.s.mag) = COMPONENT_SIZE
      /\ FitsIn32(rBytes) => out.r.mag = Component32(rBytes)
      /\ FitsIn32(sBytes) => out.s.mag = Component32(sBytes)

\* what the decoder does do: components of at most 32 bytes, after the one
\* leading 0x00, are returned padded; any longer one makes it throw
DecodesUpTo32Bytes ==
  \A rBytes \in Components, sBytes \in Components :
    (calc.fn = "parseAsn1Signature" /\ calc.input = Der(rBytes, sBytes)
       /\ calc.output # << >>) =>
      LET out == calc.output[1] IN
      IF FitsIn32(rBytes) /\ FitsIn32(sBytes)
        THEN /\ out.ok
             /\ out.r.mag = Component32(rBytes)
             /\ out.s.mag = Component32(sBytes)
        ELSE out = Thrown("RangeError: offset is out of bounds")

\* r of 33 bytes that starts with 0x01: the decoder has thrown
LongComponentThrows ==
  /\ calc.input = Der(<< 1 >> \o Repeat(7, 32), DerInteger(One32))
  /\ calc.output = << Thrown("RangeError: offset is out of bounds") >>

\* the header of a P-256 SubjectPublicKeyInfo, up to the point
SPKI_HEADER ==
  << 48, 89, 48, 19, 6, 7, 42, 134, 72, 206, 61, 2, 1, 6, 8, 42, 134, 72, 206, 61,
     3, 1, 7, 3, 66, 0 >>

\* key blobs: nothing, a header or a stray 0x04 in front of a marker byte
\* (0x04 or not) and two coordinates; and blobs shorter than 65 bytes
KeyBlobs ==
  { prefix \o << marker >> \o x \o y :
      prefix \in { << >>, << UNCOMPRESSED_POINT >>, SPKI_HEADER },
      marker \in { UNCOMPRESSED_POINT, 0, 3 },
      x \in { Repeat(1, COMPONENT_SIZE), Repeat(UNCOMPRESSED_POINT, COMPONENT_SIZE), Max32 },
      y \in { Repeat(2, COMPONENT_SIZE), Repeat(UNCOMPRESSED_POINT, COMPONENT_SIZE) } }
    \cup { << >>, << UNCOMPRESSED_POINT >>, Repeat(UNCOMPRESSED_POINT, POINT_SIZE - 1),
           << UNCOMPRESSED_POINT >> \o Repeat(9, POINT_SIZE - 2) }

ApplyExtractPublicKeyFromSpki ==
  /\ calc.fn = "extractPublicKeyFromSpki"
  /\ calc.output = << >>
  /\ calc' = [calc EXCEPT !.output = << extractPublicKeyFromSpki(calc.input) >>]
  /\ UNCHANGED machineVars

SpecExtractPublicKey ==
  InitCalc("extractPublicKeyFromSpki", KeyBlobs) /\ [][ApplyExtractPublicKeyFromSpki]_vars

\* C27: for a key blob of at least 65 bytes the function returns x = the 32
\* bytes at [len - 64, len - 32) and y = the last 32 bytes, whether the byte
\* at len - 65 is the marker 0x04 or not; it fails exactly when the blob is
\* shorter than 65 bytes.
C27_PointFromKeyBlob ==
  (calc.fn = "extractPublicKeyFromSpki" /\ calc.output # << >>) =>
    LET bytes == calc.input
        length == Len(bytes)
        out == calc.output[1]
    IN /\ out.ok <=> length >= 65
       /\ out.ok =>
            /\ IsComponentHex(out.qx) /\ IsComponentHex(out.qy)
            /\ ComponentBytes(out.qx) = SubSeq(bytes, length - 63, length - 32)
            /\ ComponentBytes(out.qy) = SubSeq(bytes, length - 31, length)

\* a blob with a stray 0x04 in front and no marker at len - 65: the
\* coordinates still come from the last 64 bytes
C27_Witness ==
  /\ calc.fn = "extractPublicKeyFromSpki"
  /\ calc.input = << UNCOMPRESSED_POINT, 3 >> \o Repeat(1, COMPONENT_SIZE) \o Repeat(2, COMPONENT_SIZE)
  /\ calc.output # << >>
  /\ calc.output[1].ok
  /\ ComponentBytes(calc.output[1].qx) = Repeat(1, COMPONENT_SIZE)
  /\ ComponentBytes(calc.output[1].qy) = Repeat(2, COMPONENT_SIZE)

ADDRESS_SIZE == 20

\* the values a field may take: two chains, two addresses, two values, call
\* data of three lengths, two nonces, two deadlines
ChallengeFieldValues ==
  [ chainId       |-> { 1, 8453 },
    walletAddress |-> { Repeat(17, ADDRESS_SIZE), Repeat(0, ADDRESS_SIZE) },
    target        |-> { Repeat(17, ADDRESS_SIZE), Repeat(34, ADDRESS_SIZE) },
    value         |-> { 0, 1000000 },
    data          |-> { << >>, << 0 >>, << 169, 5, 156, 187 >> \o Repeat(0, COMPONENT_SIZE) },
    nonce         |-> { 0, 1 },
    deadline      |-> { 256, 1700000000 } ]

ChallengeFields == DOMAIN ChallengeFieldValues

ChallengeInputs ==
  [ chainId : ChallengeFieldValues.chainId,
    walletAddress : ChallengeFieldValues.walletAddress,
    target : ChallengeFieldValues.target,
    value : ChallengeFieldValues.value,
    data : ChallengeFieldValues.data,
    nonce : ChallengeFieldValues.nonce,
    deadline : ChallengeFieldValues.deadline ]

\* two inputs: the same twice, or two that differ in one field
ChallengePairs ==
  { << a, b >> \in ChallengeInputs \X ChallengeInputs :
      Cardinality({ field \in ChallengeFields : a[field] # b[field] }) <= 1 }

ApplyBuildChallengeHash ==
  /\ calc.fn = "buildChallengeHash"
  /\ calc.output = << >>
  /\ calc' = [calc EXCEPT !.output = << buildChallengeHash(calc.input[1]),
                                       buildChallengeHash(calc.input[2]) >>]
  /\ UNCHANGED machineVars

SpecBuildChallengeHash ==
  InitCalc("buildChallengeHash", ChallengePairs) /\ [][ApplyBuildChallengeHash]_vars

\* the number that 32 big-endian bytes stand for, when it is below 2^31
BigEndian(bytes) ==
  bytes[COMPONENT_SIZE] + 256 * bytes[COMPONENT_SIZE - 1]
    + 65536 * bytes[COMPONENT_SIZE - 2] + 16777216 * bytes[COMPONENT_SIZE - 3]

Is32ByteNumber(bytes, n) ==
  /\ Len(bytes) = COMPONENT_SIZE
  /\ \A i \in 1..(COMPONENT_SIZE - 4) : bytes[i] = 0
  /\ bytes[COMPONENT_SIZE - 3] < 128
  /\ BigEndian(bytes) = n

\* the pre-image read field by field, from its first byte on
PreimageOf(in, hash) ==
  LET pre == hash.keccak256Of
      size == Len(in.data)
  IN /\ Len(pre) = 4 * COMPONENT_SIZE + 2 * ADDRESS_SIZE + size
     /\ Is32ByteNumber(SubSeq(pre, 1, 32), in.chainId)
     /\ SubSeq(pre, 33, 52) = in.walletAddress
     /\ SubSeq(pre, 53, 72) = in.target
     /\ Is32ByteNumber(SubSeq(pre, 73, 104), in.value)
     /\ SubSeq(pre, 105, 104 + size) = in.data
     /\ Is32ByteNumber(SubSeq(pre, 105 + size, 136 + size), in.nonce)
     /\ Is32ByteNumber(SubSeq(pre, 137 + size, 168 + size), in.deadline)

\* C28: the challenge pre-image is chainId (32 bytes, big-endian),
\* walletAddress (20), target (20), value (32), callData, nonce (32) and
\* deadline (32) in this order; equal inputs give equal pre-images and
\* hashes, inputs that differ in one field give different ones.
C28_ChallengePreimage ==
  (calc.fn = "buildChallengeHash" /\ calc.output # << >>) =>
    LET a == calc.input[1]
        b == calc.input[2]
    IN /\ PreimageOf(a, calc.output[1])
       /\ PreimageOf(b, calc.output[2])
       /\ a = b <=> calc.output[1] = calc.output[2]

\* two inputs that differ only in the call data, and their different hashes
C28_Witness ==
  /\ calc.fn = "buildChallengeHash"
  /\ calc.output # << >>
  /\ calc.input[1].data = << >>
  /\ calc.input[2].data = << 0 >>
  /\ calc.input[1].deadline = 1700000000
  /\ calc.output[1] # calc.output[2]

\* C29: every accepted wallet_sendCalls is answered with a batchId that
\* differs from every batchId minted before, so registering it never
\* overwrites a BatchStatus: the map held no entry for it and every entry
\* it held stays as it was.
C29_FreshBatchId ==
  [][ \A t \in Topics, id \in Ids, time \in Times, random \in Rands :
        HandleSendCalls(t, id, time, random) =>
          /\ MintBatchId(time, random) \notin DOMAIN batchStatuses
          /\ \A b \in DOMAIN batchStatuses : batchStatuses'[b] = batchStatuses[b] ]_vars

\* two queued batches carry one batchId: what the dApp polls for the first
\* is the BatchStatus of the second
TwoBatchesOneBatchId ==
  \E i, j \in 1..Len(sessionRequests) :
    /\ i # j
    /\ sessionRequests[i].batchId # NoBatch
    /\ sessionRequests[i].batchId = sessionRequests[j].batchId

\* the queued requests other than the one with this id, in queue order
OtherRequests(queue, id) == SelectSeq(queue, LAMBDA r : r.id # id)

MaxLateCalls == 2
LateIds == 1..(MaxId + 1)

\* clearRequest(requestId)
ClearRequestCalled(requestId) ==
  /\ sessionRequests' = clearRequest(sessionRequests, requestId)
  /\ UNCHANGED << sessionVars, batchStatuses, responses, seen, flows, uiVars >>

\* approveRequest(requestId, topic, result); ok = FALSE: respondSessionRequest threw
ApproveRequestCalled(requestId, topic, result, ok) ==
  /\ walletKit
  /\ Len(responses) < MaxLateCalls
  /\ approveRequest(requestId, topic, result, ok)
  /\ UNCHANGED << sessionVars, batchStatuses, seen, flows, uiVars >>

\* rejectRequest(requestId, topic); ok = FALSE: respondSessionRequest threw
RejectRequestCalled(requestId, topic, ok) ==
  /\ walletKit
  /\ Len(responses) < MaxLateCalls
  /\ rejectRequest(requestId, topic, ok)
  /\ UNCHANGED << sessionVars, batchStatuses, seen, flows, uiVars >>

\* mutant: an update for a batchId without a BatchStatus creates the entry
UpdateBatchStatusCalled_Upsert(batchId, updates) ==
  /\ batchStatuses' =
       [b \in (DOMAIN batchStatuses) \cup {batchId} |->
          IF b # batchId THEN batchStatuses[b]
          ELSE IF b \in DOMAIN batchStatuses THEN Spread(batchStatuses[b], updates)
          ELSE updates]
  /\ UNCHANGED << sessionVars, sessionRequests, responses, seen, flows, uiVars >>

\* updateBatchStatus(batchId, updates)
UpdateBatchStatusCalled(batchId, updates) ==
  /\ batchStatuses' = updateBatchStatus(batchStatuses, batchId, updates)
  /\ UNCHANGED << sessionVars, sessionRequests, responses, seen, flows, uiVars >>

\* the updates the request view makes
StatusUpdates ==
  { [status |-> 400], [status |-> 500] }
    \cup { [status |-> 200, txHash |-> txHash] : txHash \in TxHashes }

\* the maps of at most one batch and the queues of at most two transactions
\* the bridge can hold on two live sessions
LateMaps ==
  { << >> } \cup
  { registerBatch(<< >>, batchId, ChainOf(1)) : batchId \in BatchIds } \cup
  { updateBatchStatus(registerBatch(<< >>, batchId, ChainOf(1)), batchId, updates) :
      batchId \in BatchIds, updates \in StatusUpdates }

LateRequests ==
  { SessionRequest(id, t, "eth_sendTransaction", ChainOf(t), NoBatch, 0) :
      id \in Ids, t \in Topics }

LateQueues ==
  { << >> } \cup { << r >> : r \in LateRequests }
    \cup { pair \in LateRequests \X LateRequests : pair[1] # pair[2] }

InitLateUpdate ==
  /\ status = "connected"
  /\ error = NoError
  /\ walletKit = TRUE
  /\ initializing = FALSE
  /\ initEffect = NoRun
  /\ kit = [t \in Topics |-> "live"]
  /\ sessionCalls = {}
  /\ activeSessions = [t \in Topics |-> ActiveSession(t)]
  /\ sessionRequests \in LateQueues
  /\ batchStatuses \in LateMaps
  /\ responses = << >>
  /\ seen = {}
  /\ showModal = TRUE
  /\ pairCall = NoPair
  /\ flows = {}
  /\ credential = [qx |-> TRUE, qy |-> TRUE]
  /\ txError = NoError
  /\ transfer = NoTransfer
  /\ calc = NoCalc

NextLateUpdate ==
  \/ \E requestId \in LateIds : ClearRequestCalled(requestId)
  \/ \E requestId \in LateIds, t \in Topics, txHash \in TxHashes, ok \in BOOLEAN :
       ApproveRequestCalled(requestId, t, txHash, ok)
  \/ \E requestId \in LateIds, t \in Topics, ok \in BOOLEAN :
       RejectRequestCalled(requestId, t, ok)
  \/ \E batchId \in BatchIds, updates \in StatusUpdates :
       UpdateBatchStatusCalled(batchId, updates)

SpecLateUpdate == InitLateUpdate /\ [][NextLateUpdate]_vars

QueuedIds == { r.id : r \in Range(sessionRequests) }

\* C31: an update that targets an entry that no longer exists is a no-op:
\* updateBatchStatus for a batchId without a BatchStatus creates no entry
\* and changes no other entry; approve, reject or clear for a request id
\* that is not queued leaves the queue unchanged; and applying an update a
\* second time to the state it produced gives that state again.
C31_LateUpdateIsNoOp ==
  [][ /\ \A batchId \in BatchIds, updates \in StatusUpdates :
           UpdateBatchStatusCalled(batchId, updates) =>
             /\ batchId \notin DOMAIN batchStatuses => batchStatuses' = batchStatuses
             /\ DOMAIN batchStatuses' = DOMAIN batchStatuses
             /\ \A b \in DOMAIN batchStatuses :
                  b # batchId => batchStatuses'[b] = batchStatuses[b]
             /\ updateBatchStatus(batchStatuses', batchId, updates) = batchStatuses'
      /\ \A requestId \in LateIds :
           ( \/ ClearRequestCalled(requestId)
             \/ \E t \in Topics, txHash \in TxHashes :
                  ApproveRequestCalled(requestId, t, txHash, TRUE)
             \/ \E t \in Topics : RejectRequestCalled(requestId, t, TRUE) ) =>
             /\ requestId \notin QueuedIds => sessionRequests' = sessionRequests
             /\ clearRequest(sessionRequests', requestId) = sessionRequests'
      /\ \A requestId \in LateIds :
           ( \/ \E t \in Topics, txHash \in TxHashes :
                  ApproveRequestCalled(requestId, t, txHash, FALSE)
             \/ \E t \in Topics : RejectRequestCalled(requestId, t, FALSE) ) =>
             sessionRequests' = sessionRequests ]_vars

\* an update arrived for a batchId that has no BatchStatus while another
\* batch has one, and an approval arrived for an id that is not queued
\* while another request is
C31_Witness ==
  /\ batchStatuses # << >>
  /\ DOMAIN batchStatuses # BatchIds
  /\ sessionRequests # << >>
  /\ \E i \in 1..Len(responses) :
       /\ responses[i].via = "approveRequest"
       /\ responses[i].response.id \notin QueuedIds
       /\ responses[i].response.id \notin Ids

\* ------------------------------------------------------------ the init effect
\* The init effect run at mount and run again at any later time, with any
\* enabled flag and with or without a wallet address, while WalletKit.init
\* resolves or rejects and the user pairs.
Addresses == { "", smartWalletAddress }

NextInit ==
  \/ InitStart
  \/ \E enabled \in BOOLEAN, address \in Addresses : InitEffect(enabled, address)
  \/ \E persisted \in SUBSET Topics : InitOk(persisted)
  \/ InitFail
  \/ \E valid \in BOOLEAN : Pair(valid)
  \/ PairOk
  \/ PairFail
  \/ OpenModal
  \/ CloseModal

SpecInit == Init /\ [][NextInit]_vars

\* C32: while one initialization is outstanding, a further run of the init
\* effect starts no second one (it changes neither the status nor the error
\* nor initializingRef), so at most one WalletKit.init is in flight at any
\* time.
C32_OneInitializationInFlight ==
  /\ [](initEffect.calls <= 1)
  /\ [][ \A enabled \in BOOLEAN, address \in Addresses :
           (InitEffect(enabled, address) /\ initEffect.calls > 0) =>
             /\ initEffect'.calls = initEffect.calls
             /\ UNCHANGED << status, error, initializing, walletKit >> ]_vars

\* the effect ran again while WalletKit.init was outstanding and returned at
\* the initializingRef guard
C32_Witness ==
  /\ initEffect.calls = 1
  /\ initEffect.last = "busy"
  /\ status = "initializing"

\* ------------------------------------------------------- events of one topic
\* The requests one session sends, two of them at most, with every method,
\* while the user approves and rejects and the peer deletes the session.
OrderIds == 1..(MaxId + 1)

NextOrder ==
  \/ \E id \in OrderIds, method \in InboundMethods :
       HandleSessionRequest(SigningTopic, id, method)
  \/ HandleSessionDelete(SigningTopic)
  \/ \E i \in 1..Len(sessionRequests) : SignWithPasskey(i)
  \/ \E f \in flows : PrepareOk(f)
  \/ \E f \in flows : PrepareFail(f)
  \/ \E f \in flows : CeremonyOk(f)
  \/ \E f \in flows : CeremonyFail(f, "ceremony")
  \/ \E f \in flows, txHash \in TxHashes, ok \in BOOLEAN : FacilitateOk(f, txHash, ok)
  \/ \E f \in flows : FacilitateFail(f)
  \/ \E i \in 1..Len(sessionRequests), ok \in BOOLEAN : HandleReject(i, ok)

SpecOrder == InitBridge /\ [][NextOrder]_vars

\* the methods handleSessionRequest answers before it returns, and the
\* methods it queues
AnsweredAtOnce ==
  { "wallet_getCapabilities", "wallet_getCallsStatus", "eth_accounts",
    "eth_requestAccounts", "wallet_sendCalls" }
QueuedMethods == { "wallet_sendCalls", "eth_sendTransaction" } \cup SigningMethods

\* where request r stands in the queue
Position(queue, r) == CHOOSE i \in 1..Len(queue) : queue[i] = r

\* the queue after the step holds the requests it kept in the order they
\* had, and the requests it gained behind them
KeepsQueueOrder ==
  \A r \in Range(sessionRequests'), q \in Range(sessionRequests') :
    /\ (r \in Range(sessionRequests) /\ q \in Range(sessionRequests)) =>
         ( Position(sessionRequests, r) < Position(sessionRequests, q)
             <=> Position(sessionRequests', r) < Position(sessionRequests', q) )
    /\ (r \in Range(sessionRequests) /\ q \notin Range(sessionRequests)) =>
         Position(sessionRequests', r) < Position(sessionRequests', q)

\* the log of respondSessionRequest calls only grows at its end
KeepsLogOrder ==
  /\ Len(responses') >= Len(responses)
  /\ SubSeq(responses', 1, Len(responses)) = responses

\* C33 as stated: events of one topic are handled in arrival order, the
\* state change and the response of the earlier event being issued before
\* those of the later one: when an event of a topic is handled, no earlier
\* request of that topic still waits in the queue for its response.
C33_AnsweredInArrivalOrder ==
  [][ \A id \in OrderIds, method \in InboundMethods :
        HandleSessionRequest(SigningTopic, id, method) =>
          \A r \in Range(sessionRequests) :
            r.topic = SigningTopic => ResponsesTo(responses, r.topic, r.id) # {} ]_vars

\* C33, amended: events of one topic are handled in arrival order.  The
\* step that handles an event makes its state change at once: a queued
\* method is put behind every request already queued, and a method that is
\* answered at once has its response appended to the log of responses; no
\* step reorders the queue or the log.  The response of a queued
\* eth_sendTransaction or signing request is issued when the user decides.
C33_HandledInArrivalOrder ==
  [][ /\ KeepsQueueOrder
      /\ KeepsLogOrder
      /\ \A id \in OrderIds, method \in InboundMethods :
           HandleSessionRequest(SigningTopic, id, method) =>
             /\ method \in AnsweredAtOnce =>
                  /\ Responded
                  /\ NewResponse.topic = SigningTopic
                  /\ NewResponse.response.id = id
             /\ method \in QueuedMethods =>
                  /\ Len(sessionRequests') = Len(sessionRequests) + 1
                  /\ sessionRequests'[Len(sessionRequests')].id = id
                  /\ sessionRequests'[Len(sessionRequests')].topic = SigningTopic
             /\ method \notin AnsweredAtOnce => responses' = responses ]_vars

\* two events of one topic were handled: the transaction that arrived first
\* waits in the queue without a response, in front of the batch that
\* arrived second and has its batchId reply in the log
C33_Witness ==
  /\ Len(sessionRequests) = 2
  /\ sessionRequests[1].topic = sessionRequests[2].topic
  /\ sessionRequests[1].method = "eth_sendTransaction"
  /\ sessionRequests[2].method = "wallet_sendCalls"
  /\ ResponsesTo(responses, sessionRequests[1].topic, sessionRequests[1].id) = {}
  /\ ResponsesTo(responses, sessionRequests[2].topic, sessionRequests[2].id) # {}

\* the status transitions the session manager may make
StatusTransitions ==
  { << "idle", "initializing" >> }
    \cup ({"initializing"} \X {"ready", "connected"})
    \cup ({"ready", "connected"} \X {"pairing"})
    \cup ({"pairing"} \X {"ready", "connected"})
    \cup { << "ready", "connected" >>, << "connected", "ready" >> }

C34_ErrorReached ==
  /\ status = "error"
  /\ ~walletKit

\* the respondSessionRequest calls for request (t, id) that sent a response
SentTo(log, t, id) == { i \in ResponsesTo(log, t, id) : ~log[i].threw }

\* C35: for each inbound request, identified by its topic and id, the
\* bridge sends at most one JSON-RPC response, whatever the order of
\* approvals, rejections, closing and reopening of the request view and
\* relay events.
C35_AtMostOneResponse ==
  \A t \in Topics, id \in Ids : Cardinality(SentTo(responses, t, id)) <= 1

\* one request was answered twice: with the user's rejection and with a
\* transaction hash
C35_RejectedAndApproved ==
  \E t \in Topics, id \in Ids :
    \E i \in SentTo(responses, t, id), j \in SentTo(responses, t, id) :
      /\ i < j
      /\ responses[i].via = "rejectRequest"
      /\ responses[j].via = "approveRequest"

FinalStatuses == {200, 400}

\* batchId b was given to one wallet_sendCalls request only
MintedOnce(b) ==
  Cardinality({ i \in 1..Len(responses) :
                  /\ responses[i].via = "wallet_sendCalls"
                  /\ responses[i].response.result.id = b }) = 1

\* C36: a BatchStatus changes only out of status 100 or 500: once its
\* status is 200 it keeps status 200 and its txHash, and once its status is
\* 400 it keeps status 400, in every later step.  Stated for the batchIds
\* that were minted once, so that a second batch registered under the same
\* batchId does not count as a change.
C36_FinalStatusKept ==
  [][ \A b \in DOMAIN batchStatuses :
        (MintedOnce(b)' /\ batchStatuses[b].status \in FinalStatuses) =>
          /\ b \in DOMAIN batchStatuses'
          /\ batchStatuses'[b] = batchStatuses[b] ]_vars

\* the facilitator answered success with a txHash for request r: the
\* approval of a transaction went on to approveRequest, that of a batch
\* (of a batchId minted once) set its BatchStatus to 200
Relayed(r) ==
  \/ /\ isTransaction(r)
     /\ \E i \in ResponsesTo(responses, r.topic, r.id) : responses[i].via = "approveRequest"
  \/ /\ isBatchCall(r)
     /\ r.batchId \in DOMAIN batchStatuses
     /\ MintedOnce(r.batchId)
     /\ batchStatuses[r.batchId].status = 200

\* C37: for one queued request the facilitator is asked to relay with
\* success at most once: after a facilitate call for the request returned
\* success with a txHash, no prepare call (the start of
\* handleSignWithPasskey), no passkey ceremony and no facilitate call is
\* started for that request.
C37_RelayedAtMostOnce ==
  [][ /\ \A i \in 1..Len(sessionRequests) :
           (SignWithPasskey(i) /\ flows' # flows) => ~Relayed(sessionRequests[i])
      /\ \A f \in flows :
           (PrepareOk(f) \/ CeremonyOk(f)) => ~Relayed(f.request) ]_vars

\* a transaction was relayed, the reply with its hash threw, and a second
\* approval of the same request is running
C37_SecondApprovalRunning ==
  \E f \in flows :
    /\ isTransaction(f.request)
    /\ \E i \in ResponsesTo(responses, f.request.topic, f.request.id) :
         responses[i].via = "approveRequest" /\ responses[i].threw

\* C38: every request in the queue has the topic of a session that is in
\* the ActiveSession list: no request of a deleted, disconnected or
\* never-listed session is queued.
C38_QueuedRequestsOfListedSessions ==
  \A r \in Range(sessionRequests) : r.topic \in ActiveTopics

\* a request is queued for a session that disconnectAll took off the list
\* while the transport kept it
C38_QueuedForUnlistedSession ==
  \E r \in Range(sessionRequests) :
    /\ r.topic \notin ActiveTopics
    /\ kit[r.topic] = "live"

\* what holds instead: every queued request has the topic of a session the
\* transport reports
QueuedRequestsOfTransportSessions ==
  \A r \in Range(sessionRequests) : r.topic \in getActiveSessions

\* the queued requests other than request r of its topic, in queue order
RequestsBeside(queue, r) ==
  SelectSeq(queue, LAMBDA q : ~(q.id = r.id /\ q.topic = r.topic))

\* C39: approveRequest, rejectRequest and clearRequest for the request with
\* id i on topic t remove from the queue only that request: every other
\* queued request, a request of another session with the same id i
\* included, stays queued and keeps its position.
C39_RemovesOnlyThatRequest ==
  [][ /\ \A i \in 1..Len(sessionRequests), ok \in BOOLEAN :
           HandleReject(i, ok) =>
             RequestsBeside(sessionRequests', sessionRequests[i])
               = RequestsBeside(sessionRequests, sessionRequests[i])
      /\ \A f \in flows, txHash \in TxHashes, ok \in BOOLEAN :
           FacilitateOk(f, txHash, ok) =>
             RequestsBeside(sessionRequests', f.request)
               = RequestsBeside(sessionRequests, f.request) ]_vars

\* what holds instead: the three functions remove every queued request that
\* carries the id, whatever its topic, and leave the others in their order
RemovesEveryRequestOfThatId ==
  [][ /\ \A i \in 1..Len(sessionRequests) :
           HandleReject(i, TRUE) =>
             sessionRequests' = OtherRequests(sessionRequests, sessionRequests[i].id)
      /\ \A f \in flows, txHash \in TxHashes :
           FacilitateOk(f, txHash, TRUE) =>
             sessionRequests' = OtherRequests(sessionRequests, f.request.id) ]_vars

\* two sessions have queued a request with the same id
SameIdOnTwoTopics ==
  \E r \in Range(sessionRequests), q \in Range(sessionRequests) :
    r.id = q.id /\ r.topic # q.topic

\* C40: whenever the status is ready or connected, it is connected exactly
\* when the ActiveSession list is non-empty and ready exactly when the list
\* is empty.
C40_StatusMatchesList ==
  /\ status = "connected" => Len(activeSessions) > 0
  /\ status = "ready" => Len(activeSessions) = 0

\* the status is ready while a session is listed
C40_ReadyWithSessions ==
  /\ status = "ready"
  /\ Len(activeSessions) > 0

\* the status is connected while no session is listed
C40_ConnectedWithoutSessions ==
  /\ status = "connected"
  /\ activeSessions = << >>

====
